---- MODULE Spec2Model ----
(***************************************************************************)
(* A model of the MAGRAY_Cli developer tooling scripts:                    *)
(*   - the CTL sync daemon (docs-daemon-python/ctl_sync): FileCache,       *)
(*     CtlSync.scan_crates / update_claude_md / sync_once, and the watch   *)
(*     mode with CtlFileHandler's debouncing;                              *)
(*   - scripts/automation/code_operations/ctl_annotation_remover.py;       *)
(*   - scripts/ctl.py (the CTL item store);                                *)
(*   - scripts/ci/check_benchmark_regression.py.                           *)
(* Each script is an independent program, so each has its own variables    *)
(* and its own specification (SpecReplace, SpecSync, SpecWatch, ...); a    *)
(* specification leaves the variables of the other programs untouched.     *)
(*                                                                         *)
(* Text is modelled as a sequence of chunks (each chunk a string that is   *)
(* never split), with Python's 0-based positions for find and slicing.     *)
(***************************************************************************)
EXTENDS Integers, Sequences, FiniteSets, TLC

VARIABLES
    \* ---- replace_architecture_section applied to arbitrary documents
    rContent,      \* the document handed to replace_architecture_section
    rSection,      \* the new section handed to it
    rResult,       \* what it returned
    rPc,           \* "input" | "done"
    \* ---- CtlSync (one-shot and stats modes)
    fsFiles,       \* the tree under crates_path: path -> "absent" | "unreadable" | content
    hashes,        \* FileCache.hashes of the running process: relative path -> hash
    cacheDisk,     \* cache.json: [exists, hashes]
    claudeExists,  \* CLAUDE.md exists (and is then readable and writable)
    claude,        \* the text of CLAUDE.md
    clock,         \* scans done so far; the wall clock read by update_claude_md
    syncLog,       \* what the last operation did: [op, has_changes, wrote, saved]
    \* ---- CtlSync watch mode (main.py execute_watch, watchers.py)
    wNow,          \* time.time(), in ticks of a quarter second
    wPathExists,   \* watch_path (the crates directory) exists
    mainPc,        \* main thread: "initial_sync" | "in_sync" | "start_watcher" | "watching" | "returned"
    observerOn,    \* observer.start() has been called: events are collected
    evQueue,       \* the observer's event queue
    obsPc,         \* observer thread: "wait" | "sleeping" | "callback"
    obsEvent,      \* the event the observer thread is handling
    last_trigger,  \* CtlFileHandler.last_trigger
    wakeAt,        \* when the handler's time.sleep is due to return
    syncsActive,   \* the threads that are inside CtlSync.sync_once
    callbackLog,   \* the events whose handling invoked the sync callback
    \* ---- CTLAnnotationRemover (ctl_annotation_remover.py)
    dry_run,       \* CTLAnnotationRemover.dry_run
    rsFiles,       \* the .rs files under crates/: path -> lines
    origFiles,     \* rsFiles as they were when run_cleanup was called
    backupDir,     \* the backup directory exists
    backup,        \* the files copied into the backup: path -> lines
    remPc,         \* "start" | "backup" | "scan" | "remove" | "done"
    backupTodo,    \* create_backup: the files still to copy
    annotations,   \* the CTLAnnotation list found by find_all_annotations
    pending,       \* the files whose removal task has been submitted and not run
    results,       \* the RemovalResult list
    written,       \* the .rs files that have been rewritten
    report,        \* the CleanupReport returned, or <<>>
    \* ---- CTLManager (scripts/ctl.py)
    ctlFiles,      \* [tasks, completed, metrics, architecture]: the records of each .jsonl file
    ctlCalls,      \* calls made so far
    ctlLast,       \* the last call: [op, arg, ret]
    \* ---- PerformanceAnalyzer (scripts/ci/check_benchmark_regression.py)
    results_file,  \* the current results file: [exists, valid, data]
    baseline_file, \* the baseline file: [exists, valid, data]
    analysed,      \* run_analysis has run on the present files
    strict,        \* --strict of the last run
    exit_code,     \* what the last run_analysis returned, -1 before the first
    \* ---- DaemonManager (docs-daemon-python/daemon_manager.py)
    claude_md_file, \* CLAUDE.md: [exists, readable, content]
    settings_file,  \* settings.json: [exists, valid, isdict, writable, data]
    ctl_patterns,   \* the patterns that step 1 extracted
    daemon_running, \* a ctl-sync watch process is running
    dmPc,           \* where full_sync_and_restart stands
    dmLog,          \* the steps performed: [step, ok]
    dmResult,       \* what full_sync_and_restart returned, or "none"
    \* ---- CtlSchema.validate_ctl2 (docs-daemon-python/ctl_sync/schema.py)
    pydantic_major, \* the major version of the installed pydantic
    vChoice,        \* the field choices the component was built from
    vComponent,     \* the component handed to validate_ctl2
    vResult,        \* what validate_ctl2 returned: [valid, errors]
    vDone,          \* validate_ctl2 has returned for vComponent
    \* ---- Ctl3Parser.parse_line (docs-daemon-python/ctl_sync/parsers/ctl3_parser.py)
    pShape,         \* the parts the line is built from
    pPath,          \* file_path
    pLineNo,        \* line_no
    pResult,        \* what parse_line returned
    pDone,          \* parse_line has returned for this line
    \* ---- SecurityUtils.safe_write_file (scripts/architecture_daemon.py)
    swDir,          \* the parent directory of the target
    swFiles,        \* the files of that directory: name -> "absent" | body
    swLast,         \* the last call: its arguments and what it did
    swCalls,        \* number of calls made
    \* ---- ResourceLimiter (scripts/architecture_daemon.py)
    rlNow,          \* time.time()
    rl_start_time,  \* ResourceLimiter.start_time
    rl_file_count,  \* ResourceLimiter.file_count
    rl_content_size, \* ResourceLimiter.content_size
    rlLast,         \* the last check made and whether it raised
    \* ---- the history-restore scripts
    hrHistory,      \* the directories under CURSOR_HISTORY_PATH
    hrSelected,     \* file -> the version chosen for restoration
    hrScript,       \* the script that chose
    \* ---- ArchitectureDaemon.watch_mode (scripts/architecture_daemon.py)
    aNow,           \* time.time()
    last_update,    \* ArchitectureHandler.last_update
    archThreads     \* the Timer threads: id -> [pc, fire_at]

replaceVars == <<rContent, rSection, rResult, rPc>>

syncVars == <<fsFiles, hashes, cacheDisk, claudeExists, claude, clock, syncLog>>

watchVars == <<wNow, wPathExists, mainPc, observerOn, evQueue, obsPc,
               obsEvent, last_trigger, wakeAt, syncsActive, callbackLog>>

removerVars == <<dry_run, rsFiles, origFiles, backupDir, backup, remPc, backupTodo,
                 annotations, pending, results, written, report>>

ctlVars == <<ctlFiles, ctlCalls, ctlLast>>

benchVars == <<results_file, baseline_file, analysed, strict, exit_code>>

daemonVars == <<claude_md_file, settings_file, ctl_patterns, daemon_running,
                dmPc, dmLog, dmResult>>

validateVars == <<pydantic_major, vChoice, vComponent, vResult, vDone>>

parseVars == <<pShape, pPath, pLineNo, pResult, pDone>>

writeVars == <<swDir, swFiles, swLast, swCalls>>

limiterVars == <<rlNow, rl_start_time, rl_file_count, rl_content_size, rlLast>>

restoreVars == <<hrHistory, hrSelected, hrScript>>

archVars == <<aNow, last_update, archThreads>>

vars == <<replaceVars, syncVars, watchVars, removerVars, ctlVars, benchVars, daemonVars, validateVars, parseVars, writeVars, limiterVars, restoreVars, archVars>>

(***************************************************************************)
(* The variables of a program that a specification does not run            *)
(***************************************************************************)

ReplaceIdle ==
    /\ rContent = <<>>
    /\ rSection = <<>>
    /\ rResult = <<>>
    /\ rPc = "off"

SyncIdle ==
    /\ fsFiles = <<>>
    /\ hashes = <<>>
    /\ cacheDisk = <<>>
    /\ claudeExists = FALSE
    /\ claude = <<>>
    /\ clock = 0
    /\ syncLog = <<>>

WatchIdle ==
    /\ wNow = 0
    /\ wPathExists = FALSE
    /\ mainPc = "off"
    /\ observerOn = FALSE
    /\ evQueue = <<>>
    /\ obsPc = "off"
    /\ obsEvent = <<>>
    /\ last_trigger = 0
    /\ wakeAt = 0
    /\ syncsActive = {}
    /\ callbackLog = <<>>

RemoverIdle ==
    /\ dry_run = FALSE
    /\ rsFiles = <<>>
    /\ origFiles = <<>>
    /\ backupDir = FALSE
    /\ backup = <<>>
    /\ remPc = "off"
    /\ backupTodo = <<>>
    /\ annotations = <<>>
    /\ pending = {}
    /\ results = <<>>
    /\ written = {}
    /\ report = <<>>

CtlIdle ==
    /\ ctlFiles = <<>>
    /\ ctlCalls = 0
    /\ ctlLast = <<>>

BenchIdle ==
    /\ results_file = <<>>
    /\ baseline_file = <<>>
    /\ analysed = FALSE
    /\ strict = FALSE
    /\ exit_code = -1

DaemonIdle ==
    /\ claude_md_file = <<>>
    /\ settings_file = <<>>
    /\ ctl_patterns = <<>>
    /\ daemon_running = FALSE
    /\ dmPc = "off"
    /\ dmLog = <<>>
    /\ dmResult = "none"

ValidateIdle ==
    /\ pydantic_major = 0
    /\ vChoice = <<>>
    /\ vComponent = <<>>
    /\ vResult = <<>>
    /\ vDone = FALSE

ParseIdle ==
    /\ pShape = <<>>
    /\ pPath = <<>>
    /\ pLineNo = 0
    /\ pResult = <<>>
    /\ pDone = FALSE

WriteIdle ==
    /\ swDir = <<>>
    /\ swFiles = <<>>
    /\ swLast = <<>>
    /\ swCalls = 0

LimiterIdle ==
    /\ rlNow = 0
    /\ rl_start_time = 0
    /\ rl_file_count = 0
    /\ rl_content_size = 0
    /\ rlLast = <<>>

RestoreIdle ==
    /\ hrHistory = <<>>
    /\ hrSelected = <<>>
    /\ hrScript = "none"

ArchIdle ==
    /\ aNow = 0
    /\ last_update = 0
    /\ archThreads = <<>>

(***************************************************************************)
(* Text helpers (Python str operations on chunk sequences)                 *)
(***************************************************************************)

\* s[:p]
Prefix(s, p) == SubSeq(s, 1, p)

\* s[p:]
Suffix(s, p) == SubSeq(s, p + 1, Len(s))

\* sub occurs in s at 0-based position p
OccursAt(s, sub, p) ==
    /\ p >= 0
    /\ p + Len(sub) <= Len(s)
    /\ SubSeq(s, p + 1, p + Len(sub)) = sub

\* s.find(sub, start): the lowest position >= start where sub occurs, else -1
Find(s, sub, start) ==
    LET hits == {p \in start..Len(s) : OccursAt(s, sub, p)}
    IN  IF hits = {} THEN -1 ELSE CHOOSE p \in hits : \A q \in hits : p <= q

\* All sequences over S of length at most n
RECURSIVE SeqsUpTo(_, _)
SeqsUpTo(S, n) ==
    IF n = 0 THEN {<<>>}
    ELSE LET shorter == SeqsUpTo(S, n - 1)
         IN  shorter \cup {Append(s, x) : s \in {t \in shorter : Len(t) = n - 1}, x \in S}

(***************************************************************************)
(* CtlSync: the architecture section of CLAUDE.md (core.py)                *)
(***************************************************************************)

\* core.py:274  "# AUTO-GENERATED ARCHITECTURE"
start_marker == <<"# AUTO-GENERATED ", "ARCHITECTURE">>

\* core.py:275  "# AUTO-GENERATED COMPONENT STATUS"
end_marker == <<"# AUTO-GENERATED ", "COMPONENT STATUS">>

\* json.dumps(component, ...): the component rendered as one line of text
json_dumps(component) == ToString(component)

\* The component lines of the section, each after a "\n"
RECURSIVE JsonLines(_)
JsonLines(components) ==
    IF components = <<>> THEN <<>>
    ELSE <<"\n", json_dumps(Head(components))>> \o JsonLines(Tail(components))

\* CtlSync.build_architecture_section: the lines joined by "\n" (the three
\* backticks of the code fence are written [fence])
build_architecture_section(components, timestamp) ==
    start_marker
        \o <<"\n\n*Last updated: ", timestamp,
             "*\n\n## Components (CTL v2.0/v3.0 Mixed Format)\n\n[fence]json">>
        \o JsonLines(components)
        \o <<"\n[fence]">>

\* A plausible slip: the end marker is searched from the start of the document
replace_architecture_section_EndFromZero(content, new_section) ==
    LET start_pos == Find(content, start_marker, 0)
        found     == Find(content, end_marker, 0)
        end_pos   == IF found = -1 THEN Len(content) ELSE found
    IN  IF start_pos = -1
        THEN content \o <<"\n\n">> \o new_section
        ELSE Prefix(content, start_pos) \o new_section \o <<"\n\n">>
                 \o Suffix(content, end_pos)

\* CtlSync.replace_architecture_section
replace_architecture_section(content, new_section) ==
    LET start_pos == Find(content, start_marker, 0)
        found     == IF start_pos = -1 THEN -1
                     ELSE Find(content, end_marker, start_pos)
        end_pos   == IF found = -1 THEN Len(content) ELSE found
    IN  IF start_pos = -1
        THEN content \o <<"\n\n">> \o new_section
        ELSE Prefix(content, start_pos) \o new_section \o <<"\n\n">>
                 \o Suffix(content, end_pos)

(***************************************************************************)
(* CtlSync: FileCache, scan_crates, update_claude_md, sync_once (core.py)  *)
(***************************************************************************)

\* Scans (sync_once or get_stats) a behaviour may make
MaxScans == 3

\* dict.get(key, default)
DictGet(d, key, default) == IF key \in DOMAIN d THEN d[key] ELSE default

\* d[key] = value
DictSet(d, key, value) ==
    [q \in DOMAIN d \cup {key} |-> IF q = key THEN value ELSE d[q]]

\* The tree under crates_path in the order rglob walks it; a path is its
\* directory parts, the file's stem and its suffix
TreeOrder ==
    << [parts |-> <<"cli", "src">>, stem |-> "main", suffix |-> ".rs"],
       [parts |-> <<"cli", "target", "debug">>, stem |-> "build", suffix |-> ".rs"],
       [parts |-> <<"memory", "src">>, stem |-> "lib", suffix |-> ".rs"],
       [parts |-> <<"cli">>, stem |-> "README", suffix |-> ".md"] >>

TreePaths == {TreeOrder[i] : i \in 1..Len(TreeOrder)}

FileContents == {"c1", "c2"}

FileStates == {"absent", "unreadable"} \cup FileContents

\* hashlib.sha256(content).hexdigest(): distinct contents, distinct digests
sha256(content) == IF content = "c1" THEN "9f2c..c1" ELSE "47ab..c2"

\* FileCache.get_hash: "" when the file cannot be read
get_hash(state) == IF state \in FileContents THEN sha256(state) ELSE ""

\* FileCache.is_changed with the store of the new hash forgotten
is_changed_NoStore(h, state, relative_path) ==
    LET current_hash  == get_hash(state)
        previous_hash == DictGet(h, relative_path, "")
    IN  [changed |-> current_hash # previous_hash, hashes |-> h]

\* FileCache.is_changed: [changed, hashes]
is_changed(h, state, relative_path) ==
    LET current_hash  == get_hash(state)
        previous_hash == DictGet(h, relative_path, "")
    IN  IF current_hash # previous_hash
        THEN [changed |-> TRUE, hashes |-> DictSet(h, relative_path, current_hash)]
        ELSE [changed |-> FALSE, hashes |-> h]

\* CtlSync.extract_components: the validated components the parsers find in a
\* file (content c1 declares a component, content c2 an application)
extract_components(content, file_path) ==
    IF content = "c1" THEN <<[k |-> "C", id |-> "core", x_file |-> file_path]>>
    ELSE IF content = "c2" THEN <<[k |-> "A", id |-> "api", x_file |-> file_path]>>
    ELSE <<>>

\* Python's order on the strings used as sort keys
StrOrder == <<"A", "C", "api", "core">>

StrRank(x) == CHOOSE i \in 1..Len(StrOrder) : StrOrder[i] = x

\* (a.k, a.id) <= (b.k, b.id)
KeyLeq(a, b) ==
    \/ StrRank(a.k) < StrRank(b.k)
    \/ (a.k = b.k /\ StrRank(a.id) <= StrRank(b.id))

\* c put into the sorted list after every element that is not greater
RECURSIVE InsertSorted(_, _)
InsertSorted(sorted, c) ==
    IF sorted = <<>> THEN <<c>>
    ELSE IF KeyLeq(Head(sorted), c)
         THEN <<Head(sorted)>> \o InsertSorted(Tail(sorted), c)
         ELSE <<c>> \o sorted

\* all_components.sort(key=lambda c: (c.get('k', ''), c.get('id', ''))), stable
RECURSIVE SortComponents(_)
SortComponents(cs) ==
    IF cs = <<>> THEN <<>>
    ELSE InsertSorted(SortComponents(SubSeq(cs, 1, Len(cs) - 1)), cs[Len(cs)])

\* self.crates_path.rglob("*.rs"): the existing files whose name ends in .rs
rglob_rs(fs) ==
    SelectSeq(TreeOrder, LAMBDA p : fs[p] # "absent" /\ p.suffix = ".rs")

\* The loop of scan_crates over the files still to visit
RECURSIVE ScanLoop(_, _, _, _, _)
ScanLoop(files, fs, h, has_changes, all_components) ==
    IF files = <<>>
    THEN [hashes |-> h, has_changes |-> has_changes,
          components |-> SortComponents(all_components)]
    ELSE LET rust_file == Head(files)
         IN  IF \E i \in 1..Len(rust_file.parts) : rust_file.parts[i] = "target"
             THEN ScanLoop(Tail(files), fs, h, has_changes, all_components)
             ELSE LET chk == is_changed(h, fs[rust_file], rust_file)
                      found == IF fs[rust_file] \in FileContents
                               THEN extract_components(fs[rust_file], rust_file)
                               ELSE <<>>
                  IN  ScanLoop(Tail(files), fs, chk.hashes,
                               has_changes \/ chk.changed,
                               all_components \o found)

\* CtlSync.scan_crates: [hashes, has_changes, components]
scan_crates(fs, h) == ScanLoop(rglob_rs(fs), fs, h, FALSE, <<>>)

\* strftime of the clock
Timestamp(t) == ToString(t)

\* CtlSync.update_claude_md: the new text of CLAUDE.md (unchanged if missing)
update_claude_md(exists, content, components, now) ==
    IF ~exists THEN content
    ELSE replace_architecture_section(
             content, build_architecture_section(components, Timestamp(now)))

InitialClaude == <<"text", "# AUTO-GENERATED ", "COMPONENT STATUS", "text">>

InitSync ==
    /\ ReplaceIdle
    /\ WatchIdle
    /\ RemoverIdle
    /\ CtlIdle
    /\ BenchIdle
    /\ DaemonIdle
    /\ ValidateIdle
    /\ ParseIdle
    /\ WriteIdle
    /\ LimiterIdle
    /\ RestoreIdle
    /\ ArchIdle
    /\ fsFiles \in [TreePaths -> {"absent", "c1"}]
    /\ hashes = <<>>
    /\ cacheDisk = [exists |-> FALSE, hashes |-> <<>>]
    /\ claudeExists \in BOOLEAN
    /\ claude = IF claudeExists THEN InitialClaude ELSE <<>>
    /\ clock = 0
    /\ syncLog = [op |-> "new", has_changes |-> FALSE, wrote |-> FALSE, saved |-> FALSE]

\* A .rs file under crates_path is created, edited, made unreadable or deleted
EditFile ==
    \E p \in {q \in TreePaths : q.suffix = ".rs"}, st \in FileStates :
        /\ st # fsFiles[p]
        /\ fsFiles' = [fsFiles EXCEPT ![p] = st]
        /\ syncLog' = [op |-> "edit", has_changes |-> FALSE, wrote |-> FALSE, saved |-> FALSE]
        /\ UNCHANGED <<hashes, cacheDisk, claudeExists, claude, clock>>
        /\ UNCHANGED <<replaceVars, watchVars, removerVars, ctlVars, benchVars, daemonVars, validateVars, parseVars, writeVars, limiterVars, restoreVars, archVars>>

\* CtlSync.sync_once
SyncOnce ==
    /\ clock < MaxScans
    /\ LET scan == scan_crates(fsFiles, hashes)
       IN  /\ hashes' = scan.hashes
           /\ clock' = clock + 1
           /\ IF scan.has_changes
              THEN /\ claude' = update_claude_md(claudeExists, claude, scan.components, clock')
                   /\ cacheDisk' = [exists |-> TRUE, hashes |-> scan.hashes]
                   /\ syncLog' = [op |-> "sync", has_changes |-> TRUE,
                                  wrote |-> claudeExists, saved |-> TRUE]
              ELSE /\ UNCHANGED <<claude, cacheDisk>>
                   /\ syncLog' = [op |-> "sync", has_changes |-> FALSE,
                                  wrote |-> FALSE, saved |-> FALSE]
    /\ UNCHANGED <<fsFiles, claudeExists>>
    /\ UNCHANGED <<replaceVars, watchVars, removerVars, ctlVars, benchVars, daemonVars, validateVars, parseVars, writeVars, limiterVars, restoreVars, archVars>>

\* CtlSync.get_stats: a scan whose components are only counted
GetStats ==
    /\ clock < MaxScans
    /\ LET scan == scan_crates(fsFiles, hashes)
       IN  /\ hashes' = scan.hashes
           /\ syncLog' = [op |-> "stats", has_changes |-> scan.has_changes,
                          wrote |-> FALSE, saved |-> FALSE]
    /\ clock' = clock + 1
    /\ UNCHANGED <<fsFiles, cacheDisk, claudeExists, claude>>
    /\ UNCHANGED <<replaceVars, watchVars, removerVars, ctlVars, benchVars, daemonVars, validateVars, parseVars, writeVars, limiterVars, restoreVars, archVars>>

\* The process ends and a new CtlSync is built: FileCache.load
NewProcess ==
    /\ syncLog.op # "new"
    /\ hashes' = IF cacheDisk.exists THEN cacheDisk.hashes ELSE <<>>
    /\ syncLog' = [op |-> "new", has_changes |-> FALSE, wrote |-> FALSE, saved |-> FALSE]
    /\ UNCHANGED <<fsFiles, cacheDisk, claudeExists, claude, clock>>
    /\ UNCHANGED <<replaceVars, watchVars, removerVars, ctlVars, benchVars, daemonVars, validateVars, parseVars, writeVars, limiterVars, restoreVars, archVars>>

NextSync == EditFile \/ SyncOnce \/ GetStats \/ NewProcess

SpecSync == InitSync /\ [][NextSync]_vars

\* The .rs files a scan is meant to look at: present, named *.rs, under no
\* directory called target
ScannedFiles ==
    {p \in TreePaths :
        /\ fsFiles[p] # "absent"
        /\ p.suffix = ".rs"
        /\ "target" \notin {p.parts[i] : i \in 1..Len(p.parts)}}

\* Some scanned file's hash differs from the one the previous scan recorded
SomeFileChanged ==
    \E p \in ScannedFiles : get_hash(fsFiles[p]) # DictGet(hashes, p, "")

debounce_seconds == 2

\* Ticks of the clock a behaviour may see
MaxTicks == 5

\* Events that may wait in the observer's queue
MaxQueue == 1

\* time.time() when the daemon starts (far from the epoch)
StartTime == 2 * debounce_seconds

\* The paths whose events the watcher may see
MainRs == [parts |-> <<"cli", "src">>, name |-> "main.rs", suffix |-> ".rs", hidden |-> FALSE]

TargetRs == [parts |-> <<"cli", "target">>, name |-> "build.rs", suffix |-> ".rs", hidden |-> FALSE]

SwapFile == [parts |-> <<"cli", "src">>, name |-> ".main.rs", suffix |-> ".rs", hidden |-> TRUE]

SrcDir == [parts |-> <<"cli">>, name |-> "src", suffix |-> "", hidden |-> FALSE]

\* The events the observer may deliver: [type, is_directory, path]
EventShapes ==
    { [type |-> "FileModifiedEvent", is_directory |-> FALSE, path |-> MainRs],
      [type |-> "FileCreatedEvent", is_directory |-> FALSE, path |-> MainRs],
      [type |-> "FileDeletedEvent", is_directory |-> FALSE, path |-> MainRs],
      [type |-> "FileModifiedEvent", is_directory |-> FALSE, path |-> TargetRs],
      [type |-> "FileCreatedEvent", is_directory |-> FALSE, path |-> SwapFile],
      [type |-> "DirModifiedEvent", is_directory |-> TRUE, path |-> SrcDir] }

\* CtlFileHandler.should_process_file
should_process_file(path) ==
    IF path.suffix # ".rs" THEN FALSE
    ELSE IF "target" \in {path.parts[i] : i \in 1..Len(path.parts)} THEN FALSE
    ELSE IF path.hidden THEN FALSE
    ELSE TRUE

\* on_modified / on_created: the event reaches trigger_sync
Qualifies(e) ==
    /\ e.type \in {"FileModifiedEvent", "FileCreatedEvent"}
    /\ ~e.is_directory
    /\ should_process_file(e.path)

InitWatch ==
    /\ ReplaceIdle
    /\ SyncIdle
    /\ RemoverIdle
    /\ CtlIdle
    /\ BenchIdle
    /\ DaemonIdle
    /\ ValidateIdle
    /\ ParseIdle
    /\ WriteIdle
    /\ LimiterIdle
    /\ RestoreIdle
    /\ ArchIdle
    /\ wNow = StartTime
    /\ wPathExists \in BOOLEAN
    /\ mainPc = "initial_sync"
    /\ observerOn = FALSE
    /\ evQueue = <<>>
    /\ obsPc = "wait"
    /\ obsEvent = <<>>
    /\ last_trigger = 0
    /\ wakeAt = 0
    /\ syncsActive = {}
    /\ callbackLog = <<>>

\* Time passes
Tick ==
    /\ wNow < StartTime + MaxTicks
    /\ wNow' = wNow + 1
    /\ UNCHANGED <<wPathExists, mainPc, observerOn, evQueue, obsPc,
                   obsEvent, last_trigger, wakeAt, syncsActive, callbackLog>>
    /\ UNCHANGED <<replaceVars, syncVars, removerVars, ctlVars, benchVars, daemonVars, validateVars, parseVars, writeVars, limiterVars, restoreVars, archVars>>

\* execute_watch line 103: the initial ctl_sync.sync_once() begins
MainBeginSync ==
    /\ mainPc = "initial_sync"
    /\ mainPc' = "in_sync"
    /\ syncsActive' = syncsActive \cup {"main"}
    /\ UNCHANGED <<wNow, wPathExists, observerOn, evQueue, obsPc,
                   obsEvent, last_trigger, wakeAt, callbackLog>>
    /\ UNCHANGED <<replaceVars, syncVars, removerVars, ctlVars, benchVars, daemonVars, validateVars, parseVars, writeVars, limiterVars, restoreVars, archVars>>

\* execute_watch line 103: the initial ctl_sync.sync_once() returns
MainEndSync ==
    /\ mainPc = "in_sync"
    /\ mainPc' = "start_watcher"
    /\ syncsActive' = syncsActive \ {"main"}
    /\ UNCHANGED <<wNow, wPathExists, observerOn, evQueue, obsPc,
                   obsEvent, last_trigger, wakeAt, callbackLog>>
    /\ UNCHANGED <<replaceVars, syncVars, removerVars, ctlVars, benchVars, daemonVars, validateVars, parseVars, writeVars, limiterVars, restoreVars, archVars>>

\* A slip: the watcher is started while the initial sync may still be running
MainStartWatcher_BeforeSyncEnds ==
    /\ mainPc \in {"in_sync", "start_watcher"}
    /\ \/ /\ ~observerOn
          /\ wPathExists
          /\ observerOn' = TRUE
          /\ mainPc' = mainPc
       \/ /\ mainPc = "start_watcher"
          /\ observerOn' = observerOn
          /\ mainPc' = IF observerOn THEN "watching" ELSE "returned"
    /\ UNCHANGED <<wNow, wPathExists, evQueue, obsPc, obsEvent,
                   last_trigger, wakeAt, syncsActive, callbackLog>>
    /\ UNCHANGED <<replaceVars, syncVars, removerVars, ctlVars, benchVars, daemonVars, validateVars, parseVars, writeVars, limiterVars, restoreVars, archVars>>

\* execute_watch lines 105-107 and CtlWatcher.start: the observer is scheduled
\* and started, unless the watch path is missing
MainStartWatcher ==
    /\ mainPc = "start_watcher"
    /\ IF wPathExists
       THEN observerOn' = TRUE /\ mainPc' = "watching"
       ELSE observerOn' = FALSE /\ mainPc' = "returned"
    /\ UNCHANGED <<wNow, wPathExists, evQueue, obsPc, obsEvent,
                   last_trigger, wakeAt, syncsActive, callbackLog>>
    /\ UNCHANGED <<replaceVars, syncVars, removerVars, ctlVars, benchVars, daemonVars, validateVars, parseVars, writeVars, limiterVars, restoreVars, archVars>>

\* The observer's emitter queues an event for a change under the watch path
FsEvent ==
    /\ observerOn
    /\ Len(evQueue) < MaxQueue
    /\ \E sh \in EventShapes :
          evQueue' = Append(evQueue,
              [t |-> wNow, type |-> sh.type, is_directory |-> sh.is_directory,
               path |-> sh.path])
    /\ UNCHANGED <<wNow, wPathExists, mainPc, observerOn, obsPc, obsEvent,
                   last_trigger, wakeAt, syncsActive, callbackLog>>
    /\ UNCHANGED <<replaceVars, syncVars, removerVars, ctlVars, benchVars, daemonVars, validateVars, parseVars, writeVars, limiterVars, restoreVars, archVars>>

\* The observer thread takes the next event and calls the handler:
\* on_modified / on_created, then trigger_sync up to its time.sleep
ObsDispatch ==
    /\ obsPc = "wait"
    /\ evQueue # <<>>
    /\ evQueue' = Tail(evQueue)
    /\ LET e == Head(evQueue)
           current_time == wNow
       IN  IF ~Qualifies(e)
           THEN UNCHANGED <<obsPc, obsEvent, last_trigger, wakeAt>>
           ELSE IF current_time - last_trigger < debounce_seconds
           THEN UNCHANGED <<obsPc, obsEvent, last_trigger, wakeAt>>
           ELSE /\ last_trigger' = current_time
                /\ wakeAt' = wNow + debounce_seconds
                /\ obsEvent' = e
                /\ obsPc' = "sleeping"
    /\ UNCHANGED <<wNow, wPathExists, mainPc, observerOn, syncsActive,
                   callbackLog>>
    /\ UNCHANGED <<replaceVars, syncVars, removerVars, ctlVars, benchVars, daemonVars, validateVars, parseVars, writeVars, limiterVars, restoreVars, archVars>>

\* A slip: time.sleep returns one tick early
ObsWake_Early ==
    /\ obsPc = "sleeping"
    /\ wNow >= wakeAt - 1
    /\ IF wNow - last_trigger < debounce_seconds
       THEN /\ obsPc' = "wait"
            /\ obsEvent' = <<>>
            /\ UNCHANGED <<syncsActive, callbackLog>>
       ELSE /\ obsPc' = "callback"
            /\ syncsActive' = syncsActive \cup {"observer"}
            /\ callbackLog' = Append(callbackLog, obsEvent)
            /\ UNCHANGED obsEvent
    /\ UNCHANGED <<wNow, wPathExists, mainPc, observerOn, evQueue,
                   last_trigger, wakeAt>>
    /\ UNCHANGED <<replaceVars, syncVars, removerVars, ctlVars, benchVars, daemonVars, validateVars, parseVars, writeVars, limiterVars, restoreVars, archVars>>

\* trigger_sync lines 52-59: time.sleep returns, the second check is made and
\* the callback (CtlSync.sync_once) is entered
ObsWake ==
    /\ obsPc = "sleeping"
    /\ wNow >= wakeAt
    /\ IF wNow - last_trigger < debounce_seconds
       THEN /\ obsPc' = "wait"
            /\ obsEvent' = <<>>
            /\ UNCHANGED <<syncsActive, callbackLog>>
       ELSE /\ obsPc' = "callback"
            /\ syncsActive' = syncsActive \cup {"observer"}
            /\ callbackLog' = Append(callbackLog, obsEvent)
            /\ UNCHANGED obsEvent
    /\ UNCHANGED <<wNow, wPathExists, mainPc, observerOn, evQueue,
                   last_trigger, wakeAt>>
    /\ UNCHANGED <<replaceVars, syncVars, removerVars, ctlVars, benchVars, daemonVars, validateVars, parseVars, writeVars, limiterVars, restoreVars, archVars>>

\* trigger_sync line 59: the callback returns, and the handler with it
ObsCallbackEnd ==
    /\ obsPc = "callback"
    /\ obsPc' = "wait"
    /\ obsEvent' = <<>>
    /\ syncsActive' = syncsActive \ {"observer"}
    /\ UNCHANGED <<wNow, wPathExists, mainPc, observerOn, evQueue,
                   last_trigger, wakeAt, callbackLog>>
    /\ UNCHANGED <<replaceVars, syncVars, removerVars, ctlVars, benchVars, daemonVars, validateVars, parseVars, writeVars, limiterVars, restoreVars, archVars>>

NextWatch ==
    \/ Tick
    \/ MainBeginSync
    \/ MainEndSync
    \/ MainStartWatcher
    \/ FsEvent
    \/ ObsDispatch
    \/ ObsWake
    \/ ObsCallbackEnd

SpecWatch == InitWatch /\ [][NextWatch]_vars

\* C3: in watch mode at most one execution of sync_once is in progress at
\* any moment: the initial sync has returned before the observer runs, and
\* the observer thread makes one callback at a time.
C3_NoOverlap ==
    /\ Cardinality(syncsActive) <= 1
    /\ "main" \in syncsActive => (~observerOn /\ obsPc = "wait" /\ evQueue = <<>>)

\* C3 witness: a watcher-triggered sync_once is running, after the initial
\* sync, while a further event already waits in the queue.
C3_Witness ==
    /\ mainPc = "watching"
    /\ syncsActive = {"observer"}
    /\ evQueue # <<>>
    /\ Qualifies(Head(evQueue))

\* C4: two qualifying events that occurred less than debounce_seconds apart
\* and were delivered one after the other cause at most one sync callback.
C4_Debounced ==
    \A i, j \in 1..Len(callbackLog) :
        i < j => callbackLog[j].t - callbackLog[i].t >= debounce_seconds

(***************************************************************************)
(* Watch mode left running: the threads keep being scheduled and time      *)
(* keeps passing.  Time is kept relative to the present: a tick moves      *)
(* every recorded time one tick back instead of moving the clock forward,  *)
(* down to StartTime ticks before the present, which leaves every          *)
(* difference of less than StartTime = 2 * debounce_seconds as it is.      *)
(***************************************************************************)

\* Syncs the handler may trigger in one behaviour
MaxSyncs == 2

\* A recorded time, one tick further in the past
ShiftBack(t) == IF t > 0 THEN t - 1 ELSE 0

ShiftEvents(events) ==
    [i \in 1..Len(events) |-> [events[i] EXCEPT !.t = ShiftBack(@)]]

\* The qualifying events that wait in the queue or in the handler's sleep
PendingQualifying ==
    Cardinality({i \in 1..Len(evQueue) : Qualifies(evQueue[i])})
        + (IF obsPc = "sleeping" THEN 1 ELSE 0)

\* Time passes
TickOn ==
    /\ wNow' = wNow
    /\ last_trigger' = ShiftBack(last_trigger)
    /\ wakeAt' = ShiftBack(wakeAt)
    /\ evQueue' = ShiftEvents(evQueue)
    /\ callbackLog' = ShiftEvents(callbackLog)
    /\ obsEvent' = IF obsEvent = <<>> THEN obsEvent
                   ELSE [obsEvent EXCEPT !.t = ShiftBack(@)]
    /\ UNCHANGED <<wPathExists, mainPc, observerOn, obsPc, syncsActive>>
    /\ UNCHANGED <<replaceVars, syncVars, removerVars, ctlVars, benchVars, daemonVars, validateVars, parseVars, writeVars, limiterVars, restoreVars, archVars>>

\* The events emitted here: a modification and a creation that qualify, and
\* a modification that does not
ShapesOn ==
    {sh \in EventShapes : Qualifies(sh) \/ sh.path = TargetRs}

\* The observer's emitter queues an event; at most MaxSyncs qualifying events
\* in one behaviour
FsEventOn ==
    /\ observerOn
    /\ Len(evQueue) < MaxQueue
    /\ \E sh \in ShapesOn :
          /\ Qualifies(sh) => Len(callbackLog) + PendingQualifying < MaxSyncs
          /\ evQueue' = Append(evQueue,
                [t |-> wNow, type |-> sh.type, is_directory |-> sh.is_directory,
                 path |-> sh.path])
    /\ UNCHANGED <<wNow, wPathExists, mainPc, observerOn, obsPc, obsEvent,
                   last_trigger, wakeAt, syncsActive, callbackLog>>
    /\ UNCHANGED <<replaceVars, syncVars, removerVars, ctlVars, benchVars, daemonVars, validateVars, parseVars, writeVars, limiterVars, restoreVars, archVars>>

NextWatchOn ==
    \/ TickOn
    \/ MainBeginSync
    \/ MainEndSync
    \/ MainStartWatcher
    \/ FsEventOn
    \/ ObsDispatch
    \/ ObsWake
    \/ ObsCallbackEnd

\* The main thread and the observer thread are scheduled again and again,
\* and time passes; nothing obliges the file system to change
SpecWatchOn ==
    /\ InitWatch
    /\ [][NextWatchOn]_vars
    /\ WF_vars(TickOn)
    /\ WF_vars(MainBeginSync)
    /\ WF_vars(MainEndSync)
    /\ WF_vars(MainStartWatcher)
    /\ WF_vars(ObsDispatch)
    /\ WF_vars(ObsWake)
    /\ WF_vars(ObsCallbackEnd)

MaxFileLines == 3

\* The .rs files under crates/, in rglob order
RemPaths == <<"crates/cli/src/main.rs", "crates/memory/src/lib.rs">>

RemPathSet == {RemPaths[i] : i \in 1..Len(RemPaths)}

\* The lines a file may hold
SourceLines == {"fn main() {}", "// @component: {k:C,id:cli}", "// CTL v3.0 tensor"}

\* re.match of some pattern of CTL_PATTERNS on the line
MatchesCtlPattern(line) ==
    line \in {"// @component: {k:C,id:cli}", "// CTL v3.0 tensor"}

\* _scan_file_for_annotations: one CTLAnnotation per matching line, numbered from 1
scan_file_for_annotations(file_path, lines) ==
    LET hit == {n \in 1..Len(lines) : MatchesCtlPattern(lines[n])}
        RECURSIVE Collect(_)
        Collect(n) ==
            IF n > Len(lines) THEN <<>>
            ELSE (IF n \in hit
                  THEN <<[file_path |-> file_path, line_number |-> n,
                          line_content |-> lines[n]]>>
                  ELSE <<>>) \o Collect(n + 1)
    IN  Collect(1)

\* find_all_annotations: the annotations of every file, in rglob order
RECURSIVE find_all_annotations(_, _)
find_all_annotations(paths, files) ==
    IF paths = <<>> THEN <<>>
    ELSE scan_file_for_annotations(Head(paths), files[Head(paths)])
             \o find_all_annotations(Tail(paths), files)

\* sorted(xs, reverse=True)
RECURSIVE SortedDesc(_)
SortedDesc(xs) ==
    IF xs = <<>> THEN <<>>
    ELSE LET m == CHOOSE i \in 1..Len(xs) : \A j \in 1..Len(xs) : xs[i] >= xs[j]
         IN  <<xs[m]>> \o SortedDesc(SubSeq(xs, 1, m - 1) \o SubSeq(xs, m + 1, Len(xs)))

\* for line_index in lines_to_remove: if 0 <= line_index < len(lines): del lines[line_index]
RECURSIVE DeleteLines(_, _)
DeleteLines(lines, lines_to_remove) ==
    IF lines_to_remove = <<>> THEN lines
    ELSE LET line_index == Head(lines_to_remove)
         IN  IF 0 <= line_index /\ line_index < Len(lines)
             THEN DeleteLines(SubSeq(lines, 1, line_index)
                                  \o SubSeq(lines, line_index + 2, Len(lines)),
                              Tail(lines_to_remove))
             ELSE DeleteLines(lines, Tail(lines_to_remove))

\* The annotations of one file (remove_all_annotations groups them by file)
AnnotationsOf(anns, file_path) == SelectSeq(anns, LAMBDA a : a.file_path = file_path)

\* remove_annotations_from_file with the dry_run test left out
remove_annotations_from_file_AlwaysWrite(file_path, lines, anns, dry) ==
    LET lines_to_remove == SortedDesc([i \in 1..Len(anns) |-> anns[i].line_number - 1])
        final == DeleteLines(lines, lines_to_remove)
    IN  [result |-> [file_path |-> file_path,
                     removed_count |-> Len(lines) - Len(final),
                     original_lines |-> Len(lines),
                     final_lines |-> Len(final),
                     success |-> TRUE],
         writes |-> TRUE,
         lines |-> final]

\* remove_annotations_from_file: the RemovalResult, whether the file is
\* written, and the lines written
remove_annotations_from_file(file_path, lines, anns, dry) ==
    LET lines_to_remove == SortedDesc([i \in 1..Len(anns) |-> anns[i].line_number - 1])
        final == DeleteLines(lines, lines_to_remove)
    IN  [result |-> [file_path |-> file_path,
                     removed_count |-> Len(lines) - Len(final),
                     original_lines |-> Len(lines),
                     final_lines |-> Len(final),
                     success |-> TRUE],
         writes |-> ~dry,
         lines |-> final]

\* sum(r.removed_count for r in results if r.success)
RECURSIVE TotalRemoved(_)
TotalRemoved(rs) ==
    IF rs = <<>> THEN 0
    ELSE (IF Head(rs).success THEN Head(rs).removed_count ELSE 0) + TotalRemoved(Tail(rs))

FileBodies == SeqsUpTo(SourceLines, MaxFileLines)

InitRemover ==
    /\ ReplaceIdle
    /\ SyncIdle
    /\ WatchIdle
    /\ CtlIdle
    /\ BenchIdle
    /\ DaemonIdle
    /\ ValidateIdle
    /\ ParseIdle
    /\ WriteIdle
    /\ LimiterIdle
    /\ RestoreIdle
    /\ ArchIdle
    /\ dry_run \in BOOLEAN
    /\ rsFiles \in [RemPathSet -> FileBodies]
    /\ origFiles = rsFiles
    /\ backupDir = FALSE
    /\ backup = <<>>
    /\ remPc = "start"
    /\ backupTodo = <<>>
    /\ annotations = <<>>
    /\ pending = {}
    /\ results = <<>>
    /\ written = {}
    /\ report = <<>>

\* run_cleanup lines 445-446 and create_backup lines 116-126: without dry_run
\* the backup directory is made and the .rs files are listed
StartCleanup ==
    /\ remPc = "start"
    /\ IF ~dry_run
       THEN /\ backupDir' = TRUE
            /\ backupTodo' = RemPaths
            /\ remPc' = "backup"
       ELSE /\ UNCHANGED <<backupDir, backupTodo>>
            /\ remPc' = "scan"
    /\ UNCHANGED <<dry_run, rsFiles, origFiles, backup, annotations, pending,
                   results, written, report>>
    /\ UNCHANGED <<replaceVars, syncVars, watchVars, ctlVars, benchVars, daemonVars, validateVars, parseVars, writeVars, limiterVars, restoreVars, archVars>>

\* create_backup lines 136-141: the next file is copied
BackupCopy ==
    /\ remPc = "backup"
    /\ backupTodo # <<>>
    /\ backup' = DictSet(backup, Head(backupTodo), rsFiles[Head(backupTodo)])
    /\ backupTodo' = Tail(backupTodo)
    /\ UNCHANGED <<dry_run, rsFiles, origFiles, backupDir, remPc, annotations,
                   pending, results, written, report>>
    /\ UNCHANGED <<replaceVars, syncVars, watchVars, ctlVars, benchVars, daemonVars, validateVars, parseVars, writeVars, limiterVars, restoreVars, archVars>>

\* create_backup returns (line 144)
BackupFinish ==
    /\ remPc = "backup"
    /\ backupTodo = <<>>
    /\ remPc' = "scan"
    /\ UNCHANGED <<dry_run, rsFiles, origFiles, backupDir, backup, backupTodo,
                   annotations, pending, results, written, report>>
    /\ UNCHANGED <<replaceVars, syncVars, watchVars, ctlVars, benchVars, daemonVars, validateVars, parseVars, writeVars, limiterVars, restoreVars, archVars>>

\* A slip: the failure of the backup is logged and the cleanup goes on
BackupRaise_Swallowed ==
    /\ remPc = "backup"
    /\ remPc' = "scan"
    /\ UNCHANGED <<dry_run, rsFiles, origFiles, backupDir, backup, backupTodo,
                   annotations, pending, results, written, report>>
    /\ UNCHANGED <<replaceVars, syncVars, watchVars, ctlVars, benchVars, daemonVars, validateVars, parseVars, writeVars, limiterVars, restoreVars, archVars>>

\* create_backup raises (mkdir or copy2 fails); run_cleanup lines 475-486
\* return the failure report
BackupRaise ==
    /\ remPc = "backup"
    /\ remPc' = "done"
    /\ report' = [total_files_processed |-> 0, total_annotations_removed |-> 0,
                  backup_location |-> backupDir, compilation_success |-> FALSE,
                  failed |-> TRUE]
    /\ UNCHANGED <<dry_run, rsFiles, origFiles, backupDir, backup, backupTodo,
                   annotations, pending, results, written>>
    /\ UNCHANGED <<replaceVars, syncVars, watchVars, ctlVars, benchVars, daemonVars, validateVars, parseVars, writeVars, limiterVars, restoreVars, archVars>>

\* run_cleanup lines 449-461 and remove_all_annotations lines 267-291: the
\* annotations are found; with none the report is returned, otherwise one
\* task per file with annotations is submitted
ScanAnnotations ==
    /\ remPc = "scan"
    /\ LET found == find_all_annotations(RemPaths, rsFiles)
       IN  /\ annotations' = found
           /\ IF found = <<>>
              THEN /\ remPc' = "done"
                   /\ report' = [total_files_processed |-> 0,
                                 total_annotations_removed |-> 0,
                                 backup_location |-> backupDir,
                                 compilation_success |-> TRUE, failed |-> FALSE]
                   /\ UNCHANGED pending
              ELSE /\ remPc' = "remove"
                   /\ pending' = {found[i].file_path : i \in 1..Len(found)}
                   /\ UNCHANGED report
    /\ UNCHANGED <<dry_run, rsFiles, origFiles, backupDir, backup, backupTodo,
                   results, written>>
    /\ UNCHANGED <<replaceVars, syncVars, watchVars, ctlVars, benchVars, daemonVars, validateVars, parseVars, writeVars, limiterVars, restoreVars, archVars>>

\* A worker of the ThreadPoolExecutor runs remove_annotations_from_file for one
\* file; the results are gathered as the tasks complete
RemoveFromFile ==
    /\ remPc = "remove"
    /\ \E f \in pending :
          LET out == remove_annotations_from_file(
                         f, rsFiles[f], AnnotationsOf(annotations, f), dry_run)
          IN  /\ pending' = pending \ {f}
              /\ results' = Append(results, out.result)
              /\ IF out.writes
                 THEN /\ rsFiles' = [rsFiles EXCEPT ![f] = out.lines]
                      /\ written' = written \cup {f}
                 ELSE UNCHANGED <<rsFiles, written>>
    /\ UNCHANGED <<dry_run, origFiles, backupDir, backup, remPc, backupTodo,
                   annotations, report>>
    /\ UNCHANGED <<replaceVars, syncVars, watchVars, ctlVars, benchVars, daemonVars, validateVars, parseVars, writeVars, limiterVars, restoreVars, archVars>>

\* run_cleanup lines 466-473: check_compilation (cargo check, skipped in a dry
\* run) and generate_report
CheckCompilation ==
    /\ remPc = "remove"
    /\ pending = {}
    /\ \E cargo_ok \in BOOLEAN :
          report' = [total_files_processed |-> Len(results),
                     total_annotations_removed |-> TotalRemoved(results),
                     backup_location |-> backupDir,
                     compilation_success |-> (dry_run \/ cargo_ok),
                     failed |-> FALSE]
    /\ remPc' = "done"
    /\ UNCHANGED <<dry_run, rsFiles, origFiles, backupDir, backup, backupTodo,
                   annotations, pending, results, written>>
    /\ UNCHANGED <<replaceVars, syncVars, watchVars, ctlVars, benchVars, daemonVars, validateVars, parseVars, writeVars, limiterVars, restoreVars, archVars>>

NextRemover ==
    \/ StartCleanup
    \/ BackupCopy
    \/ BackupFinish
    \/ BackupRaise
    \/ ScanAnnotations
    \/ RemoveFromFile
    \/ CheckCompilation

SpecRemover == InitRemover /\ [][NextRemover]_vars

\* Every .rs file has been copied into the backup as it was
BackupComplete ==
    /\ backupDir
    /\ \A f \in RemPathSet : f \in DOMAIN backup /\ backup[f] = origFiles[f]

\* C5: in a cleanup without dry_run no .rs file is rewritten before
\* create_backup has copied every .rs file, and if create_backup raises no
\* .rs file is modified at all.
C5_BackupFirst ==
    ~dry_run =>
        /\ (written # {} \/ rsFiles # origFiles) => BackupComplete
        /\ remPc = "remove" => BackupComplete
        /\ (remPc = "done" /\ report.failed) => (written = {} /\ rsFiles = origFiles)

\* C5 witness: a cleanup without dry_run has rewritten a file.
C5_Witness ==
    /\ ~dry_run
    /\ remPc = "done"
    /\ written # {}
    /\ rsFiles # origFiles

\* The lines of a file that match a CTL pattern
AnnotationCount(lines) ==
    Cardinality({n \in 1..Len(lines) : MatchesCtlPattern(lines[n])})

\* C6: with dry_run no .rs file is written and no backup directory is made,
\* and every RemovalResult reports the number of lines that would be removed
\* (the annotation lines of its file); every file with annotations has one.
C6_DryRunFrame ==
    dry_run =>
        /\ rsFiles = origFiles
        /\ written = {}
        /\ ~backupDir
        /\ backup = <<>>
        /\ \A i \in 1..Len(results) :
              /\ results[i].success
              /\ results[i].removed_count = AnnotationCount(origFiles[results[i].file_path])
              /\ results[i].removed_count > 0
        /\ (remPc = "done" /\ annotations # <<>>) =>
              /\ {results[i].file_path : i \in 1..Len(results)}
                     = {f \in RemPathSet : AnnotationCount(origFiles[f]) > 0}
              /\ report.total_annotations_removed
                     = AnnotationCount(origFiles[RemPaths[1]])
                         + AnnotationCount(origFiles[RemPaths[2]])

\* C6 witness: a dry run has finished with results for two files, one of
\* them with two lines to remove.
C6_Witness ==
    /\ dry_run
    /\ remPc = "done"
    /\ Len(results) = 2
    /\ \E i \in 1..Len(results) : results[i].removed_count = 2

(***************************************************************************)
(* CTLManager (scripts/ctl.py): the item store in four .jsonl files.       *)
(* An item is a dict, here a function from its keys; a string whose length *)
(* matters (id, t) is a sequence of characters.  A line of a file is the   *)
(* item that json.loads gives back for it.                                 *)
(***************************************************************************)

\* Calls (add, complete, update_metric) a behaviour may make
MaxCalls == 4

\* add: len(item['id']) > 32
MaxIdLen == 32

\* add: len(item['t']) > 40
MaxTitleLen == 40

\* add: 1 <= item['p'] <= 5
MinPriority == 1

MaxPriority == 5

Chars(n, c) == [i \in 1..n |-> c]

IdA == <<"a">>

IdFull == Chars(MaxIdLen, "b")

IdTooLong == Chars(MaxIdLen + 1, "c")

TitleShort == <<"t">>

TitleFull == Chars(MaxTitleLen, "t")

TitleTooLong == Chars(MaxTitleLen + 1, "t")

\* datetime.now().isoformat()
NowIso == "2025-06-01T12:00:00"

\* self.files, in the order of the dict
FileNames == <<"tasks", "completed", "metrics", "architecture">>

\* key in item
Has(item, key) == key \in DOMAIN item

\* The item without one of its keys
Without(item, key) == [q \in DOMAIN item \ {key} |-> item[q]]

\* bool(value) of a string value
Truthy(value) == value # ""

\* key_order of add, and key.startswith('x_') for the keys in use
KeptKeys == {"k", "id", "t", "p", "e", "d", "r", "m", "f",
             "x_completed", "x_updated", "x_file"}

\* add lines 54-63: the item with the keys add keeps
ordered_item(item) == [q \in DOMAIN item \cap KeptKeys |-> item[q]]

\* exists that only looks into tasks.jsonl
exists_TasksOnly(files, item_id) ==
    \E i \in 1..Len(files.tasks) : DictGet(files.tasks[i], "id", "") = item_id

\* CTLManager.exists
exists(files, item_id) ==
    \E n \in 1..Len(FileNames) :
        \E i \in 1..Len(files[FileNames[n]]) :
            DictGet(files[FileNames[n]][i], "id", "") = item_id

\* add lines 36-47 with the title test left out
validation_error_NoTitleCheck(item) ==
    IF ~Has(item, "k") \/ ~Has(item, "id") \/ ~Has(item, "t") THEN "ValueError"
    ELSE IF Len(item.id) > MaxIdLen THEN "ValueError"
    ELSE IF Has(item, "p") /\ ~(MinPriority <= item.p /\ item.p <= MaxPriority)
         THEN "ValueError"
    ELSE "None"

\* add lines 36-47: the field checks
validation_error(item) ==
    IF ~Has(item, "k") \/ ~Has(item, "id") \/ ~Has(item, "t") THEN "ValueError"
    ELSE IF Len(item.id) > MaxIdLen THEN "ValueError"
    ELSE IF Len(item.t) > MaxTitleLen THEN "ValueError"
    ELSE IF Has(item, "p") /\ ~(MinPriority <= item.p /\ item.p <= MaxPriority)
         THEN "ValueError"
    ELSE "None"

\* add lines 66-73 with the x_completed test left out
target_file_NoCompleted(item) ==
    IF item.k = "M" THEN "metrics"
    ELSE IF item.k \in {"A", "C"} THEN "architecture"
    ELSE "tasks"

\* add lines 66-73: the file an item goes to
target_file(item) ==
    IF item.k = "T" /\ Truthy(DictGet(item, "x_completed", "")) THEN "completed"
    ELSE IF item.k = "M" THEN "metrics"
    ELSE IF item.k \in {"A", "C"} THEN "architecture"
    ELSE "tasks"

\* CTLManager.add: [ret, files]
add(files, item) ==
    IF validation_error(item) # "None"
    THEN [ret |-> "ValueError", files |-> files]
    ELSE IF exists(files, item.id)
    THEN [ret |-> "ValueError", files |-> files]
    ELSE LET rec  == ordered_item(item)
             file == target_file(rec)
         IN  [ret |-> "None",
              files |-> [files EXCEPT ![file] = Append(@, rec)]]

\* CTLManager.query(kind=kind): the matching items of all files, in file order
query(files, kind) ==
    LET Of(name) == SelectSeq(files[name], LAMBDA it : DictGet(it, "k", "") = kind)
    IN  Of("tasks") \o Of("completed") \o Of("metrics") \o Of("architecture")

\* CTLManager.remove_from_file
remove_from_file(lines, task_id) ==
    SelectSeq(lines, LAMBDA it : DictGet(it, "id", "") # task_id)

\* CTLManager.complete: [ret, files]
complete(files, task_id) ==
    LET tasks == query(files, "T")
        found == {i \in 1..Len(tasks) : tasks[i].id = task_id}
    IN  IF found = {}
        THEN [ret |-> "False", files |-> files]
        ELSE LET t0      == tasks[CHOOSE i \in found : \A j \in found : i <= j]
                 t1      == DictSet(t0, "x_completed", NowIso)
                 task    == DictSet(t1, "r", DictGet(t1, "r", "completed"))
                 removed == [files EXCEPT
                                !.tasks = remove_from_file(files.tasks, task_id)]
                 added   == add(removed, task)
             IN  IF added.ret = "None"
                 THEN [ret |-> "True", files |-> added.files]
                 ELSE [ret |-> added.ret, files |-> removed]

\* CTLManager.update_metric: [ret, files]
update_metric(files, metric_id, current) ==
    LET metrics == query(files, "M")
        found == {i \in 1..Len(metrics) : metrics[i].id = metric_id}
    IN  IF found = {}
        THEN [ret |-> "False", files |-> files]
        ELSE LET n == CHOOSE i \in found : \A j \in found : i <= j
             IN  IF ~Has(metrics[n], "m")
                 THEN [ret |-> "KeyError", files |-> files]
                 ELSE LET m1 == DictSet(metrics[n], "m",
                                        [metrics[n].m EXCEPT !.cur = current])
                          m2 == DictSet(m1, "x_updated", NowIso)
                      IN  [ret |-> "True",
                           files |-> [files EXCEPT
                                         !.metrics = [metrics EXCEPT ![n] = m2]]]

\* The ids callers use
CallIds == {IdA, IdFull}

\* The items callers hand to add
AddItems ==
    UNION {
        { [k |-> "T", id |-> i, t |-> TitleShort, p |-> MaxPriority],
          [k |-> "T", id |-> i, t |-> TitleFull, note |-> "n"],
          [k |-> "T", id |-> i, t |-> TitleShort, x_completed |-> NowIso],
          [k |-> "T", id |-> i, t |-> TitleShort, x_completed |-> ""],
          [k |-> "M", id |-> i, t |-> TitleShort, m |-> [cur |-> 1, tgt |-> 10, u |-> "%"]],
          [k |-> "M", id |-> i, t |-> TitleShort],
          [k |-> "A", id |-> i, t |-> TitleShort],
          [k |-> "B", id |-> i, t |-> TitleShort, p |-> MinPriority] } : i \in CallIds }
    \cup
        { [id |-> IdA, t |-> TitleShort],
          [k |-> "T", t |-> TitleShort],
          [k |-> "T", id |-> IdA],
          [k |-> "T", id |-> IdTooLong, t |-> TitleShort],
          [k |-> "T", id |-> IdA, t |-> TitleTooLong],
          [k |-> "T", id |-> IdA, t |-> TitleShort, p |-> MinPriority - 1],
          [k |-> "B", id |-> IdA, t |-> TitleShort, p |-> MaxPriority + 1] }

InitCtl ==
    /\ ReplaceIdle
    /\ SyncIdle
    /\ WatchIdle
    /\ RemoverIdle
    /\ BenchIdle
    /\ DaemonIdle
    /\ ValidateIdle
    /\ ParseIdle
    /\ WriteIdle
    /\ LimiterIdle
    /\ RestoreIdle
    /\ ArchIdle
    /\ ctlFiles = [tasks |-> <<>>, completed |-> <<>>, metrics |-> <<>>,
                   architecture |-> <<>>]
    /\ ctlCalls = 0
    /\ ctlLast = [op |-> "init", arg |-> <<>>, ret |-> "None"]

\* mgr.add(item)
Add ==
    /\ ctlCalls < MaxCalls
    /\ \E item \in AddItems :
          LET out == add(ctlFiles, item)
          IN  /\ ctlFiles' = out.files
              /\ ctlLast' = [op |-> "add", arg |-> item, ret |-> out.ret]
    /\ ctlCalls' = ctlCalls + 1
    /\ UNCHANGED <<replaceVars, syncVars, watchVars, removerVars, benchVars, daemonVars, validateVars, parseVars, writeVars, limiterVars, restoreVars, archVars>>

\* mgr.complete(task_id)
Complete ==
    /\ ctlCalls < MaxCalls
    /\ \E task_id \in CallIds \cup {IdTooLong} :
          LET out == complete(ctlFiles, task_id)
          IN  /\ ctlFiles' = out.files
              /\ ctlLast' = [op |-> "complete", arg |-> task_id, ret |-> out.ret]
    /\ ctlCalls' = ctlCalls + 1
    /\ UNCHANGED <<replaceVars, syncVars, watchVars, removerVars, benchVars, daemonVars, validateVars, parseVars, writeVars, limiterVars, restoreVars, archVars>>

\* mgr.update_metric(metric_id, current)
UpdateMetric ==
    /\ ctlCalls < MaxCalls
    /\ \E metric_id \in CallIds, current \in {2} :
          LET out == update_metric(ctlFiles, metric_id, current)
          IN  /\ ctlFiles' = out.files
              /\ ctlLast' = [op |-> "update_metric", arg |-> metric_id, ret |-> out.ret]
    /\ ctlCalls' = ctlCalls + 1
    /\ UNCHANGED <<replaceVars, syncVars, watchVars, removerVars, benchVars, daemonVars, validateVars, parseVars, writeVars, limiterVars, restoreVars, archVars>>

NextCtl == Add \/ Complete \/ UpdateMetric

SpecCtl == InitCtl /\ [][NextCtl]_vars

\* The records of a file that carry the id
WithId(lines, item_id) == SelectSeq(lines, LAMBDA it : DictGet(it, "id", "") = item_id)

\* C7: when complete(task_id) is called for a kind-T task stored in
\* tasks.jsonl and returns True, the task is no longer in tasks.jsonl, is in
\* completed.jsonl exactly once with x_completed set, and every other record
\* of every file is as it was.
C7_CompleteMoves ==
    [][(/\ ctlCalls' = ctlCalls + 1
        /\ ctlLast'.op = "complete"
        /\ ctlLast'.ret = "True"
        /\ \E i \in 1..Len(ctlFiles.tasks) :
              ctlFiles.tasks[i].id = ctlLast'.arg /\ ctlFiles.tasks[i].k = "T")
       => LET id == ctlLast'.arg
              moved == WithId(ctlFiles'.completed, id)
          IN  /\ WithId(ctlFiles'.tasks, id) = <<>>
              /\ Len(moved) = 1
              /\ Has(moved[1], "x_completed") /\ Truthy(moved[1].x_completed)
              /\ Without(Without(moved[1], "x_completed"), "r")
                    = Without(Without(WithId(ctlFiles.tasks, id)[1], "x_completed"), "r")
              /\ ctlFiles'.tasks
                    = SelectSeq(ctlFiles.tasks, LAMBDA it : it.id # id)
              /\ SelectSeq(ctlFiles'.completed, LAMBDA it : it.id # id)
                    = ctlFiles.completed
              /\ ctlFiles'.metrics = ctlFiles.metrics
              /\ ctlFiles'.architecture = ctlFiles.architecture]_vars

\* C7 witness: a task has been completed while another task stayed behind.
C7_Witness ==
    /\ ctlLast.op = "complete"
    /\ ctlLast.ret = "True"
    /\ Len(ctlFiles.tasks) = 1
    /\ Len(ctlFiles.completed) = 1

\* Every record of the four files, tasks first
AllRecords ==
    ctlFiles.tasks \o ctlFiles.completed \o ctlFiles.metrics \o ctlFiles.architecture

\* C8: no two records of tasks.jsonl, completed.jsonl, metrics.jsonl and
\* architecture.jsonl have the same id.
C8_UniqueIds ==
    \A i, j \in 1..Len(AllRecords) :
        i # j => AllRecords[i].id # AllRecords[j].id

\* C8 witness: two records are stored, one of them a completed task, after a
\* call that failed.
C8_Witness ==
    /\ Len(AllRecords) = 2
    /\ Len(ctlFiles.completed) = 1
    /\ ctlLast.ret = "ValueError"

\* What C9 rejects: a required field is missing, the id or the title is too
\* long, the priority is out of range, or the id is already stored
Rejected(files, item) ==
    \/ ~({"k", "id", "t"} \subseteq DOMAIN item)
    \/ Len(item.id) > 32
    \/ Len(item.t) > 40
    \/ ("p" \in DOMAIN item /\ item.p \notin 1..5)
    \/ \E n \in DOMAIN files : \E i \in 1..Len(files[n]) : files[n][i].id = item.id

\* The file an accepted item belongs to by its kind
FileOfKind(item) ==
    CASE item.k = "M" -> "metrics"
      [] item.k \in {"A", "C"} -> "architecture"
      [] item.k = "T" /\ "x_completed" \in DOMAIN item /\ item.x_completed # "" -> "completed"
      [] OTHER -> "tasks"

\* C9: add raises ValueError and changes no file when the item is rejected;
\* otherwise it appends exactly one record, to the one file of the item's kind.
C9_AddValidates ==
    [][(ctlCalls' = ctlCalls + 1 /\ ctlLast'.op = "add")
       => LET item == ctlLast'.arg
          IN  IF Rejected(ctlFiles, item)
              THEN ctlLast'.ret = "ValueError" /\ ctlFiles' = ctlFiles
              ELSE /\ ctlLast'.ret = "None"
                   /\ \A n \in DOMAIN ctlFiles :
                         IF n = FileOfKind(item)
                         THEN /\ Len(ctlFiles'[n]) = Len(ctlFiles[n]) + 1
                              /\ SubSeq(ctlFiles'[n], 1, Len(ctlFiles[n])) = ctlFiles[n]
                              /\ ctlFiles'[n][Len(ctlFiles'[n])].id = item.id
                              /\ ctlFiles'[n][Len(ctlFiles'[n])].k = item.k
                              /\ ctlFiles'[n][Len(ctlFiles'[n])].t = item.t
                         ELSE ctlFiles'[n] = ctlFiles[n]]_vars

\* C9 witness: an add was refused for a duplicate id after two items were
\* stored in different files.
C9_Witness ==
    /\ ctlLast.op = "add"
    /\ ctlLast.ret = "ValueError"
    /\ {"k", "id", "t"} \subseteq DOMAIN ctlLast.arg
    /\ Len(ctlLast.arg.id) <= 32
    /\ Len(ctlLast.arg.t) <= 40
    /\ Len(ctlFiles.metrics) = 1
    /\ Len(ctlFiles.tasks) = 1

(***************************************************************************)
(* PerformanceAnalyzer (scripts/ci/check_benchmark_regression.py).         *)
(* A file is [exists, valid, data]: valid says that json.load succeeds,    *)
(* data is the custom-format object {name: {value, unit}}.  Measured       *)
(* values are whole numbers in their unit; a normalised value is kept as   *)
(* a whole number of millionths of the normalised unit (ms or MB), so that *)
(* every unit multiplier is an integer.                                    *)
(***************************************************************************)

\* CRITICAL_BENCHMARKS: name -> threshold, in millionths of a ms (or MB)
CRITICAL_BENCHMARKS ==
    [hnsw_search_latency         |-> 5000000,
     vector_distance_calculation |-> 1000000,
     embedding_generation        |-> 100000000,
     memory_allocation           |-> 10000000,
     startup_time                |-> 2000000000]

\* REGRESSION_THRESHOLDS, in percent
REGRESSION_THRESHOLDS == [minor |-> 5, major |-> 10, critical |-> 25]

\* main: the thresholds that --strict puts in their place
STRICT_THRESHOLDS == [minor |-> 2, major |-> 5, critical |-> 15]

\* normalize_unit: unit_multipliers, in millionths
unit_multipliers ==
    [ns |-> 1, us |-> 1000, ms |-> 1000000, s |-> 1000000000,
     MB |-> 1000000, KB |-> 1000, B |-> 1]

\* PerformanceAnalyzer.normalize_unit that leaves the unit out
normalize_unit_NoUnits(value, unit) == value

\* PerformanceAnalyzer.normalize_unit
normalize_unit(value, unit) == value * DictGet(unit_multipliers, unit, 1000000)

\* PerformanceAnalyzer.load_benchmark_results, custom format: name -> BenchmarkResult;
\* a file that is missing or does not parse gives {}
load_benchmark_results(file) ==
    IF ~file.exists \/ ~file.valid
    THEN [n \in {} |-> <<>>]
    ELSE [n \in DOMAIN file.data |->
             [name  |-> n,
              value |-> DictGet(file.data[n], "value", DictGet(file.data[n], "time", 0)),
              unit  |-> DictGet(file.data[n], "unit", "ns")]]

\* The comparisons of analyze_regression whose exact change percent equals the
\* threshold and whose floating-point change_percent comes out above it:
\* <<baseline value, unit, current value, unit>>.  ((4.4 - 4.0) / 4.0) * 100
\* is 10.000000000000009 and ((0.000125 - 0.0001) / 0.0001) * 100 is
\* 25.00000000000001; on the other inputs in use the floating-point
\* comparison agrees with the exact one.
RoundedAbove == {<<4, "ms", 4400, "us">>, <<100, "ns", 125, "ns">>}

\* change_percent > threshold, for a baseline that is not 0
Exceeds(cur, base, threshold) ==
    LET c == normalize_unit(cur.value, cur.unit)
        b == normalize_unit(base.value, base.unit)
    IN  \/ (c - b) * 100 > threshold * b
        \/ /\ (c - b) * 100 = threshold * b
           /\ <<base.value, base.unit, cur.value, cur.unit>> \in RoundedAbove

\* abs(change_percent) > 2
Significant(cur, base) ==
    LET c == normalize_unit(cur.value, cur.unit)
        b == normalize_unit(base.value, base.unit)
    IN  Exceeds(cur, base, 2) \/ (b - c) * 100 > 2 * b

\* PerformanceAnalyzer.analyze_regression: the RegressionResults, without
\* change_percent, which only the report prints
analyze_regression(current, baseline, thresholds) ==
    { [benchmark_name |-> n,
       current_value  |-> normalize_unit(current[n].value, current[n].unit),
       baseline_value |-> normalize_unit(baseline[n].value, baseline[n].unit),
       is_regression  |-> Exceeds(current[n], baseline[n], thresholds.minor),
       severity       |-> IF Exceeds(current[n], baseline[n], thresholds.critical)
                          THEN "critical"
                          ELSE IF Exceeds(current[n], baseline[n], thresholds.major)
                          THEN "major"
                          ELSE "minor"] :
      n \in { q \in DOMAIN current \cap DOMAIN baseline :
                 /\ normalize_unit(baseline[q].value, baseline[q].unit) # 0
                 /\ \/ Exceeds(current[q], baseline[q], thresholds.minor)
                    \/ Significant(current[q], baseline[q]) } }

\* PerformanceAnalyzer.check_critical_thresholds: the benchmarks in violation
check_critical_thresholds(current) ==
    { n \in DOMAIN CRITICAL_BENCHMARKS \cap DOMAIN current :
         normalize_unit(current[n].value, current[n].unit) > CRITICAL_BENCHMARKS[n] }

\* run_analysis lines 236-240: the baseline written from the current results
dump_baseline(current) ==
    [exists |-> TRUE, valid |-> TRUE,
     data |-> [n \in DOMAIN current |->
                  [value |-> current[n].value, unit |-> current[n].unit]]]

\* PerformanceAnalyzer.run_analysis: [exit, baseline]
run_analysis(results_path, baseline, thresholds) ==
    LET current_results == load_benchmark_results(results_path)
        violations == check_critical_thresholds(current_results)
        baseline_results == load_benchmark_results(baseline)
        regressions ==
            IF baseline.exists /\ DOMAIN baseline_results # {}
            THEN analyze_regression(current_results, baseline_results, thresholds)
            ELSE {}
        critical_issues ==
            Cardinality({r \in regressions : r.severity = "critical"})
                + Cardinality(violations)
        major_issues == Cardinality({r \in regressions : r.severity = "major"})
    IN  IF DOMAIN current_results = {}
        THEN [exit |-> 1, baseline |-> baseline]
        ELSE [exit |-> IF critical_issues > 0 THEN 2
                       ELSE IF major_issues > 0 THEN 1
                       ELSE 0,
              baseline |-> IF baseline.exists THEN baseline
                           ELSE dump_baseline(current_results)]

\* The benchmarks of the files in use: one with a critical threshold, one without
BenchNames == {"hnsw_search_latency", "json_parse"}

\* The entries a file may hold for a benchmark; an entry may lack unit or value
Entries(n) ==
    IF n = "hnsw_search_latency"
    THEN { [value |-> 4, unit |-> "ms"], [value |-> 4400, unit |-> "us"],
           [value |-> 4500, unit |-> "us"], [value |-> 5, unit |-> "ms"],
           [value |-> 6, unit |-> "ms"] }
    ELSE { [value |-> 100], [value |-> 110, unit |-> "ns"],
           [value |-> 111, unit |-> "ns"], [value |-> 125, unit |-> "ns"],
           [value |-> 126, unit |-> "ns"], [unit |-> "ns"] }

\* The objects a benchmark file may hold
BenchData ==
    UNION { { d \in [S -> UNION {Entries(n) : n \in BenchNames}] :
                 \A n \in S : d[n] \in Entries(n) } : S \in SUBSET BenchNames }

\* A file that is not there, and a file that is not JSON
MissingFile == [exists |-> FALSE, valid |-> FALSE, data |-> [n \in {} |-> <<>>]]

CorruptFile == [exists |-> TRUE, valid |-> FALSE, data |-> [n \in {} |-> <<>>]]

BenchFiles ==
    {MissingFile, CorruptFile}
        \cup { [exists |-> TRUE, valid |-> TRUE, data |-> d] : d \in BenchData }

InitBench ==
    /\ ReplaceIdle
    /\ SyncIdle
    /\ WatchIdle
    /\ RemoverIdle
    /\ CtlIdle
    /\ DaemonIdle
    /\ ValidateIdle
    /\ ParseIdle
    /\ WriteIdle
    /\ LimiterIdle
    /\ RestoreIdle
    /\ ArchIdle
    /\ results_file \in BenchFiles
    /\ baseline_file \in BenchFiles
    /\ analysed = FALSE
    /\ strict = FALSE
    /\ exit_code = -1

\* main: sys.exit(analyzer.run_analysis()), with or without --strict
RunAnalysis ==
    /\ ~analysed
    /\ \E flag \in BOOLEAN :
          LET out == run_analysis(results_file, baseline_file,
                                  IF flag THEN STRICT_THRESHOLDS
                                  ELSE REGRESSION_THRESHOLDS)
          IN  /\ strict' = flag
              /\ exit_code' = out.exit
              /\ baseline_file' = out.baseline
    /\ analysed' = TRUE
    /\ UNCHANGED results_file
    /\ UNCHANGED <<replaceVars, syncVars, watchVars, removerVars, ctlVars, daemonVars, validateVars, parseVars, writeVars, limiterVars, restoreVars, archVars>>

\* The next benchmark run leaves a new results file
NewResults ==
    /\ analysed
    /\ results_file' \in BenchFiles \ {results_file}
    /\ analysed' = FALSE
    /\ UNCHANGED <<baseline_file, strict, exit_code>>
    /\ UNCHANGED <<replaceVars, syncVars, watchVars, removerVars, ctlVars, daemonVars, validateVars, parseVars, writeVars, limiterVars, restoreVars, archVars>>

\* The baseline file is deleted, so that the next run writes a new one
DeleteBaseline ==
    /\ analysed
    /\ baseline_file.exists
    /\ baseline_file' = MissingFile
    /\ UNCHANGED <<results_file, analysed, strict, exit_code>>
    /\ UNCHANGED <<replaceVars, syncVars, watchVars, removerVars, ctlVars, daemonVars, validateVars, parseVars, writeVars, limiterVars, restoreVars, archVars>>

NextBench == RunAnalysis \/ NewResults \/ DeleteBaseline

SpecBench == InitBench /\ [][NextBench]_vars

\* A value of a results or baseline file in nanoseconds, as the file records it
Recorded(file, n) ==
    LET e == file.data[n]
        v == IF "value" \in DOMAIN e THEN e.value ELSE 0
        u == IF "unit" \in DOMAIN e THEN e.unit ELSE "ns"
    IN  CASE u = "ns" -> v
          [] u = "us" -> v * 1000
          [] u = "ms" -> v * 1000000

\* The benchmarks that both files record
Compared == DOMAIN results_file.data \cap DOMAIN baseline_file.data

\* Benchmark n is more than pct percent slower than its baseline value
SlowerBy(n, pct) ==
    (Recorded(results_file, n) - Recorded(baseline_file, n)) * 100
        > pct * Recorded(baseline_file, n)

\* Benchmark n is at least pct percent slower than its baseline value
SlowerByAtLeast(n, pct) ==
    (Recorded(results_file, n) - Recorded(baseline_file, n)) * 100
        >= pct * Recorded(baseline_file, n)

\* hnsw_search_latency is above its critical threshold of 5 ms
OverCritical ==
    /\ "hnsw_search_latency" \in DOMAIN results_file.data
    /\ Recorded(results_file, "hnsw_search_latency") > 5000000

\* A run of run_analysis on loadable current results and an existing baseline file
AnalysisStep ==
    /\ ~analysed /\ analysed'
    /\ results_file.exists /\ results_file.valid /\ DOMAIN results_file.data # {}
    /\ baseline_file.exists

\* C10 as stated, for the default thresholds: run_analysis returns 2 if some
\* benchmark is more than 25% slower than its baseline or a critical threshold
\* is violated, otherwise 1 if some benchmark is more than 10% slower,
\* otherwise 0.
C10_AsStated ==
    [][(AnalysisStep /\ ~strict') =>
          exit_code' = IF OverCritical \/ \E n \in Compared : SlowerBy(n, 25) THEN 2
                       ELSE IF \E n \in Compared : SlowerBy(n, 10) THEN 1
                       ELSE 0]_vars

\* C10: without --strict, and counting only benchmarks whose baseline value is
\* not 0: run_analysis returns 2 when some benchmark is more than 25% slower
\* than its baseline or a critical threshold is violated, and returns 2 only
\* when some benchmark is at least 25% slower or a critical threshold is
\* violated; it does not return 0 when some benchmark is more than 10% slower,
\* and returns 0 when none is at least 10% slower and no threshold is violated.
C10_RegressionExit ==
    [][(AnalysisStep /\ ~strict')
       => LET Judged == {n \in Compared : Recorded(baseline_file, n) # 0}
          IN  /\ exit_code' \in {0, 1, 2}
              /\ (OverCritical \/ \E n \in Judged : SlowerBy(n, 25)) => exit_code' = 2
              /\ (\E n \in Judged : SlowerBy(n, 10)) => exit_code' # 0
              /\ exit_code' = 2
                    => (OverCritical \/ \E n \in Judged : SlowerByAtLeast(n, 25))
              /\ exit_code' # 0
                    => (OverCritical \/ \E n \in Judged : SlowerByAtLeast(n, 10))]_vars

\* C10 witness: a run without --strict has returned 1 for a search latency
\* that went from 4 ms to 4500 us, under the 5 ms threshold.
C10_Witness ==
    /\ analysed
    /\ ~strict
    /\ exit_code = 1
    /\ baseline_file.exists /\ baseline_file.valid
    /\ "hnsw_search_latency" \in Compared
    /\ baseline_file.data["hnsw_search_latency"] = [value |-> 4, unit |-> "ms"]
    /\ results_file.data["hnsw_search_latency"] = [value |-> 4500, unit |-> "us"]
    /\ "json_parse" \notin DOMAIN results_file.data

(***************************************************************************)
(* DaemonManager (docs-daemon-python/daemon_manager.py).                   *)
(* CLAUDE.md is [exists, readable, content], content being the set of the  *)
(* texts the manager looks for that the file holds; settings.json is       *)
(* [exists, valid, isdict, writable, data].  The steps of                  *)
(* full_sync_and_restart that touch the file system or a process are       *)
(* separate actions, since the daemon may exit between them.               *)
(***************************************************************************)

\* What extract_ctl_patterns_from_claude_md looks for: "// @component:", one
\* of "// @ctl3:" and the tensor brackets, the CTL v3.0 specification header,
\* and in the specification the operators (two of them here: the first has an
\* ASCII name in ascii_mappings, the second has none)
ClaudeTexts == {"component", "ctl3", "spec", "otimes", "odot"}

\* unicode_ops in the order of the list, and ascii_mappings
unicode_ops == <<"otimes", "odot">>

ascii_mappings == [otimes |-> "compose"]

\* The dict without keys
EmptyDict == [q \in {} |-> <<>>]

\* Python truth of a dict or list
NonEmpty(x) == DOMAIN x # {}

\* DaemonManager.extract_ctl_patterns_from_claude_md
extract_ctl_patterns_from_claude_md(file) ==
    IF ~file.exists \/ ~file.readable
    THEN EmptyDict
    ELSE LET InSpec(op) == "spec" \in file.content /\ op \in file.content
             HasAscii(op) == op \in DOMAIN ascii_mappings
             Ascii(op) == ascii_mappings[op]
             unicode == SelectSeq(unicode_ops, InSpec)
             with_ascii == SelectSeq(unicode, HasAscii)
         IN  [ctl2_patterns |-> IF "component" \in file.content
                                THEN <<"@component", "@test_component">>
                                ELSE <<>>,
              ctl3_patterns |-> IF "ctl3" \in file.content
                                THEN <<"@ctl3", "@tensor">>
                                ELSE <<>>,
              tensor_symbols |-> [unicode |-> unicode,
                                  ascii |-> [i \in 1..Len(with_ascii) |->
                                               Ascii(with_ascii[i])]],
              validation_rules |-> EmptyDict]

\* update_daemon_settings lines 103-122: the settings with the patterns put in
merge_patterns(settings, ctl_pats) ==
    LET s1 == IF NonEmpty(ctl_pats.ctl2_patterns)
              THEN LET parsing == DictGet(settings, "parsing", EmptyDict)
                       ctl2 == DictGet(parsing, "ctl2", EmptyDict)
                   IN  DictSet(settings, "parsing",
                           DictSet(parsing, "ctl2",
                               DictSet(DictSet(ctl2, "patterns", ctl_pats.ctl2_patterns),
                                       "enabled", TRUE)))
              ELSE settings
    IN  IF NonEmpty(ctl_pats.ctl3_patterns)
        THEN LET parsing == DictGet(s1, "parsing", EmptyDict)
                 ctl3 == DictGet(parsing, "ctl3", EmptyDict)
                 c1 == DictSet(DictSet(ctl3, "patterns", ctl_pats.ctl3_patterns),
                               "enabled", TRUE)
                 c2 == IF NonEmpty(ctl_pats.tensor_symbols)
                       THEN DictSet(c1, "tensor_symbols", ctl_pats.tensor_symbols)
                       ELSE c1
             IN  DictSet(s1, "parsing", DictSet(parsing, "ctl3", c2))
        ELSE s1

\* DaemonManager.update_daemon_settings: [ret, file].  A settings file that
\* holds a JSON list makes the first assignment raise TypeError.
update_daemon_settings(file, ctl_pats) ==
    IF ~file.exists \/ ~file.valid
    THEN [ret |-> "False", file |-> file]
    ELSE IF ~file.isdict
            /\ (NonEmpty(ctl_pats.ctl2_patterns) \/ NonEmpty(ctl_pats.ctl3_patterns))
    THEN [ret |-> "TypeError", file |-> file]
    ELSE IF ~file.writable
    THEN [ret |-> "False", file |-> file]
    ELSE [ret |-> "True",
          file |-> [file EXCEPT !.data = IF file.isdict
                                         THEN merge_patterns(file.data, ctl_pats)
                                         ELSE file.data]]

\* full_sync_and_restart that goes on to the restart when the update failed
next_step_IgnoreUpdate(step, ok) ==
    CASE step = "extract"  -> IF ok THEN "update" ELSE "done"
      [] step = "update"   -> "stop"
      [] step = "stop"     -> "start"
      [] step = "start"    -> IF ok THEN "validate" ELSE "done"
      [] step = "validate" -> "done"

\* full_sync_and_restart and restart_daemon: what follows a step; the result
\* of stop_daemon is not looked at
next_step(step, ok) ==
    CASE step = "extract"  -> IF ok THEN "update" ELSE "done"
      [] step = "update"   -> IF ok THEN "stop" ELSE "done"
      [] step = "stop"     -> "start"
      [] step = "start"    -> IF ok THEN "validate" ELSE "done"
      [] step = "validate" -> "done"

\* The CLAUDE.md files and settings files a run may find
ClaudeFiles ==
    { [exists |-> FALSE, readable |-> FALSE, content |-> {}],
      [exists |-> TRUE, readable |-> FALSE, content |-> {}] }
    \cup { [exists |-> TRUE, readable |-> TRUE, content |-> c] :
              c \in {{}, {"component"}, {"ctl3"}, {"component", "ctl3", "spec", "otimes"},
                     {"ctl3", "spec", "otimes", "odot"}, {"component", "otimes"}} }

SettingsData ==
    { EmptyDict,
      [parsing |-> [ctl2 |-> [patterns |-> <<"old">>, enabled |-> FALSE]],
       watch |-> [debounce |-> "0.5"]] }

SettingsFiles ==
    { [exists |-> FALSE, valid |-> FALSE, isdict |-> FALSE, writable |-> FALSE,
       data |-> EmptyDict],
      [exists |-> TRUE, valid |-> FALSE, isdict |-> FALSE, writable |-> TRUE,
       data |-> EmptyDict],
      [exists |-> TRUE, valid |-> TRUE, isdict |-> FALSE, writable |-> TRUE,
       data |-> EmptyDict] }
    \cup { [exists |-> TRUE, valid |-> TRUE, isdict |-> TRUE, writable |-> w, data |-> d] :
              w \in BOOLEAN, d \in SettingsData }

InitDaemon ==
    /\ ReplaceIdle
    /\ SyncIdle
    /\ WatchIdle
    /\ RemoverIdle
    /\ CtlIdle
    /\ BenchIdle
    /\ ValidateIdle
    /\ ParseIdle
    /\ WriteIdle
    /\ LimiterIdle
    /\ RestoreIdle
    /\ ArchIdle
    /\ claude_md_file \in ClaudeFiles
    /\ settings_file \in SettingsFiles
    /\ ctl_patterns = EmptyDict
    /\ daemon_running \in BOOLEAN
    /\ dmPc = "idle"
    /\ dmLog = <<>>
    /\ dmResult = "none"

\* What a step leaves behind: the log entry, the place to go on, the result
Proceed(step, ok, ret) ==
    /\ dmLog' = Append(dmLog, [step |-> step, ok |-> ok])
    /\ dmPc' = next_step(step, ok)
    /\ dmResult' = IF next_step(step, ok) = "done" THEN ret ELSE "none"

\* manager.full_sync_and_restart() is called
DmBegin ==
    /\ dmPc \in {"idle", "done"}
    /\ dmPc' = "extract"
    /\ dmLog' = <<>>
    /\ dmResult' = "none"
    /\ ctl_patterns' = EmptyDict
    /\ UNCHANGED <<claude_md_file, settings_file, daemon_running>>
    /\ UNCHANGED <<replaceVars, syncVars, watchVars, removerVars, ctlVars, benchVars, validateVars, parseVars, writeVars, limiterVars, restoreVars, archVars>>

\* 1. ctl_patterns = self.extract_ctl_patterns_from_claude_md()
DmExtract ==
    /\ dmPc = "extract"
    /\ ctl_patterns' = extract_ctl_patterns_from_claude_md(claude_md_file)
    /\ Proceed("extract", NonEmpty(ctl_patterns'), "False")
    /\ UNCHANGED <<claude_md_file, settings_file, daemon_running>>
    /\ UNCHANGED <<replaceVars, syncVars, watchVars, removerVars, ctlVars, benchVars, validateVars, parseVars, writeVars, limiterVars, restoreVars, archVars>>

\* 2. self.update_daemon_settings(ctl_patterns)
DmUpdate ==
    /\ dmPc = "update"
    /\ LET out == update_daemon_settings(settings_file, ctl_patterns)
       IN  /\ settings_file' = out.file
           /\ Proceed("update", out.ret = "True", out.ret)
    /\ UNCHANGED <<claude_md_file, ctl_patterns, daemon_running>>
    /\ UNCHANGED <<replaceVars, syncVars, watchVars, removerVars, ctlVars, benchVars, validateVars, parseVars, writeVars, limiterVars, restoreVars, archVars>>

\* 3. restart_daemon: self.stop_daemon(), which kills the daemon or raises inside
DmStop ==
    /\ dmPc = "stop"
    /\ \E killed \in BOOLEAN :
          /\ daemon_running' = IF killed THEN FALSE ELSE daemon_running
          /\ Proceed("stop", killed, "False")
    /\ UNCHANGED <<claude_md_file, settings_file, ctl_patterns>>
    /\ UNCHANGED <<replaceVars, syncVars, watchVars, removerVars, ctlVars, benchVars, validateVars, parseVars, writeVars, limiterVars, restoreVars, archVars>>

\* 3. restart_daemon: time.sleep(2); return self.start_daemon()
DmStart ==
    /\ dmPc = "start"
    /\ \E started \in BOOLEAN :
          /\ daemon_running' = IF started THEN TRUE ELSE daemon_running
          /\ Proceed("start", started, "False")
    /\ UNCHANGED <<claude_md_file, settings_file, ctl_patterns>>
    /\ UNCHANGED <<replaceVars, syncVars, watchVars, removerVars, ctlVars, benchVars, validateVars, parseVars, writeVars, limiterVars, restoreVars, archVars>>

\* 4. time.sleep(3); self.validate_daemon(): pgrep finds the daemon or not,
\* or the call raises inside
DmValidate ==
    /\ dmPc = "validate"
    /\ \E raised \in BOOLEAN :
          LET ok == ~raised /\ daemon_running
          IN  Proceed("validate", ok, IF ok THEN "True" ELSE "False")
    /\ UNCHANGED <<claude_md_file, settings_file, ctl_patterns, daemon_running>>
    /\ UNCHANGED <<replaceVars, syncVars, watchVars, removerVars, ctlVars, benchVars, validateVars, parseVars, writeVars, limiterVars, restoreVars, archVars>>

\* The daemon process ends by itself
DaemonExit ==
    /\ daemon_running
    /\ daemon_running' = FALSE
    /\ UNCHANGED <<claude_md_file, settings_file, ctl_patterns, dmPc, dmLog, dmResult>>
    /\ UNCHANGED <<replaceVars, syncVars, watchVars, removerVars, ctlVars, benchVars, validateVars, parseVars, writeVars, limiterVars, restoreVars, archVars>>

\* CLAUDE.md is edited between two runs
EditClaude ==
    /\ dmPc = "done"
    /\ claude_md_file' \in ClaudeFiles \ {claude_md_file}
    /\ UNCHANGED <<settings_file, ctl_patterns, daemon_running, dmPc, dmLog, dmResult>>
    /\ UNCHANGED <<replaceVars, syncVars, watchVars, removerVars, ctlVars, benchVars, validateVars, parseVars, writeVars, limiterVars, restoreVars, archVars>>

NextDaemon ==
    \/ DmBegin
    \/ DmExtract
    \/ DmUpdate
    \/ DmStop
    \/ DmStart
    \/ DmValidate
    \/ DaemonExit
    \/ EditClaude

SpecDaemon == InitDaemon /\ [][NextDaemon]_vars

\* The steps of full_sync_and_restart in their order, restart being stop then start
StepOrder == <<"extract", "update", "stop", "start", "validate">>

\* A logged step that counts as failed: stop_daemon is part of the restart,
\* whose outcome is that of start_daemon
Failed(entry) == entry.step # "stop" /\ ~entry.ok

\* C11: full_sync_and_restart performs extract, update settings, restart
\* (stop, start) and validate in this order, performs nothing after a failed
\* step, returns True only after all of them succeeded, and neither stops nor
\* starts the daemon when the settings update failed.
C11_OrderedSteps ==
    /\ Len(dmLog) <= Len(StepOrder)
    /\ \A i \in 1..Len(dmLog) : dmLog[i].step = StepOrder[i]
    /\ \A i \in 1..Len(dmLog) : Failed(dmLog[i]) => i = Len(dmLog) /\ dmPc = "done"
    /\ dmResult = "True"
          => Len(dmLog) = Len(StepOrder) /\ \A i \in 1..Len(dmLog) : ~Failed(dmLog[i])
    /\ (Len(dmLog) >= 2 /\ ~dmLog[2].ok) => Len(dmLog) = 2 /\ dmResult # "True"

\* C11 witness: a run has ended after the settings update failed, with the
\* patterns extracted and the daemon left alone.
C11_Witness ==
    /\ dmPc = "done"
    /\ Len(dmLog) = 2
    /\ dmLog[1].ok
    /\ ~dmLog[2].ok
    /\ dmResult = "False"
    /\ daemon_running

(***************************************************************************)
(* CtlSchema (docs-daemon-python/ctl_sync/schema.py).                      *)
(* A component is a dict; id, t and r are sequences of characters, d and f *)
(* lists.  A type name is the sequence of its words.  validate_ctl2 first  *)
(* builds the pydantic model CtlComponent and then runs the JSON Schema    *)
(* validator.  Field(pattern=...) is enforced by pydantic 2 and is an      *)
(* unused extra under pydantic 1; the installed major version is part of   *)
(* the state.  Effort estimates (field e) are not among the inputs.        *)
(***************************************************************************)

\* CtlComponent.id and the schema's id: ^[a-z0-9_]{1,32}$
IdLimit == 32

\* CtlComponent.t: max_length=40
TitleLimit == 40

\* CtlComponent.r: max_length=20
ResponsibleLimit == 20

\* CtlComponent.d and f: max_items=10
ItemsLimit == 10

\* CtlComponent.p: ge=1, le=5
PriorityFloor == 1

PriorityCeiling == 5

\* CtlMaturity.cur and tgt: ge=0, le=100
MaturityCeiling == 100

\* The characters of [a-z0-9_]
IdAlphabet ==
    {"a", "b", "c", "d", "e", "f", "g", "h", "i", "j", "k", "l", "m", "n", "o",
     "p", "q", "r", "s", "t", "u", "v", "w", "x", "y", "z",
     "0", "1", "2", "3", "4", "5", "6", "7", "8", "9", "_"}

\* re: ^[a-z0-9_]{1,32}$
MatchesIdPattern(id) ==
    /\ 1 <= Len(id) /\ Len(id) <= IdLimit
    /\ \A i \in 1..Len(id) : id[i] \in IdAlphabet

\* CtlComponent.k: pattern ^[TABFMSRPDC]$
ModelKinds == {"T", "A", "B", "F", "M", "S", "R", "P", "D", "C"}

\* _build_ctl2_schema: the enum of k
SchemaKinds == {"T", "A", "B", "F", "M", "S", "R", "P", "D", "C", "E"}

\* CtlSchema.get_component_kinds: the codes it maps
get_component_kinds == {"T", "A", "B", "F", "M", "S", "R", "P", "D", "C", "E"}

\* str.lower() of the words in use
Lower(word) ==
    CASE word = "Test" -> "test"             [] word = "Agent" -> "agent"
      [] word = "Batch" -> "batch"           [] word = "Function" -> "function"
      [] word = "Module" -> "module"         [] word = "Service" -> "service"
      [] word = "Resource" -> "resource"     [] word = "Process" -> "process"
      [] word = "Data" -> "data"             [] word = "Error" -> "error"
      [] word = "Component" -> "component"   [] word = "Generic" -> "generic"
      [] word = "User" -> "user"             [] word = "Validation" -> "validation"
      [] OTHER -> word

\* keyword in type_lower, for a keyword that is one of the words
InType(keyword, type_lower) == \E i \in 1..Len(type_lower) : type_lower[i] = keyword

\* CtlSchema.infer_kind_from_type
infer_kind_from_type(type_str) ==
    LET type_lower == [i \in 1..Len(type_str) |-> Lower(type_str[i])]
    IN  IF InType("test", type_lower) THEN "T"
        ELSE IF InType("agent", type_lower) THEN "A"
        ELSE IF InType("batch", type_lower) THEN "B"
        ELSE IF InType("function", type_lower) THEN "F"
        ELSE IF InType("module", type_lower) THEN "M"
        ELSE IF InType("service", type_lower) THEN "S"
        ELSE IF InType("resource", type_lower) THEN "R"
        ELSE IF InType("process", type_lower) THEN "P"
        ELSE IF InType("data", type_lower) THEN "D"
        ELSE IF InType("error", type_lower) THEN "E"
        ELSE "C"

\* CtlMaturity(**m): the fields in error
maturity_errors(m) ==
    SelectSeq(<<"cur", "tgt">>,
              LAMBDA q : ~Has(m, q) \/ m[q] < 0 \/ m[q] > MaturityCeiling)

\* CtlComponent(**component): the fields whose validation fails, in the order
\* of the model's fields
model_errors(component, major) ==
    LET Bad(q) ==
            CASE q = "k"  -> \/ ~Has(component, "k")
                             \/ major = 2 /\ component.k \notin ModelKinds
              [] q = "id" -> \/ ~Has(component, "id")
                             \/ major = 2 /\ ~MatchesIdPattern(component.id)
              [] q = "t"  -> ~Has(component, "t") \/ Len(component.t) > TitleLimit
              [] q = "p"  -> /\ Has(component, "p")
                             /\ ~(PriorityFloor <= component.p /\ component.p <= PriorityCeiling)
              [] q = "d"  -> Has(component, "d") /\ Len(component.d) > ItemsLimit
              [] q = "r"  -> Has(component, "r") /\ Len(component.r) > ResponsibleLimit
              [] q = "m"  -> Has(component, "m") /\ maturity_errors(component.m) # <<>>
              [] q = "f"  -> Has(component, "f") /\ Len(component.f) > ItemsLimit
    IN  SelectSeq(<<"k", "id", "t", "p", "d", "r", "m", "f">>, Bad)

\* self.ctl2_validator.iter_errors(component): the properties in error
schema_errors(component) ==
    LET Bad(q) ==
            CASE q = "required" -> ~({"k", "id", "t"} \subseteq DOMAIN component)
              [] q = "k"  -> Has(component, "k") /\ component.k \notin SchemaKinds
              [] q = "id" -> Has(component, "id") /\ ~MatchesIdPattern(component.id)
              [] q = "t"  -> Has(component, "t") /\ Len(component.t) > TitleLimit
              [] q = "p"  -> /\ Has(component, "p")
                             /\ ~(PriorityFloor <= component.p /\ component.p <= PriorityCeiling)
              [] q = "d"  -> Has(component, "d") /\ Len(component.d) > ItemsLimit
              [] q = "r"  -> Has(component, "r") /\ Len(component.r) > ResponsibleLimit
              [] q = "m"  -> /\ Has(component, "m")
                             /\ ~({"cur", "tgt", "u"} \subseteq DOMAIN component.m)
              [] q = "f"  -> Has(component, "f") /\ Len(component.f) > ItemsLimit
    IN  SelectSeq(<<"required", "k", "id", "t", "p", "d", "r", "m", "f">>, Bad)

\* CtlSchema.validate_ctl2: [valid, errors], the errors being the fields the
\* messages are about
validate_ctl2(component, major) ==
    LET failed == model_errors(component, major)
    IN  IF failed # <<>>
        THEN [valid |-> FALSE,
              errors |-> [i \in 1..Len(failed) |-> <<"Field", failed[i]>>]]
        ELSE LET validation_errors == schema_errors(component)
             IN  [valid |-> validation_errors = <<>>,
                  errors |-> [i \in 1..Len(validation_errors) |->
                                 <<"Schema validation", validation_errors[i]>>]]

\* The type names of test_infer_kind_from_type
TypeNames ==
    { <<"Test", "Service">>, <<"Agent", "Manager">>, <<"Batch", "Processor">>,
      <<"Helper", "Function">>, <<"Data", "Module">>, <<"User", "Service">>,
      <<"System", "Resource">>, <<"Background", "Process">>, <<"User", "Data">>,
      <<"Validation", "Error">>, <<"Generic", "Component">> }

\* A component is a choice of each field, "-" standing for an absent field
FieldChoices ==
    [k  : {infer_kind_from_type(ty) : ty \in TypeNames} \cup {"INVALID", "-"},
     id : {<<"a">>, Chars(IdLimit, "z"), Chars(IdLimit + 1, "z"),
           <<"a", "-", "b">>, <<"-">>},
     t  : {<<"t">>, Chars(TitleLimit + 1, "A"), <<"-">>},
     p  : {PriorityFloor - 1, PriorityCeiling, PriorityCeiling + 1, -1},
     d  : {Chars(ItemsLimit, "dep"), Chars(ItemsLimit + 1, "dep"), <<"-">>},
     m  : {[cur |-> 85, tgt |-> 95, u |-> "%"], [cur |-> 85, tgt |-> 95],
           [cur |-> MaturityCeiling + 1, tgt |-> 95, u |-> "%"], [none |-> TRUE]}]

\* The component of a choice: the chosen fields, without the absent ones
ComponentOf(c) ==
    LET present == {q \in {"k", "id", "t", "p", "d", "m"} :
                       CASE q = "k"  -> c.k # "-"
                         [] q = "id" -> c.id # <<"-">>
                         [] q = "t"  -> c.t # <<"-">>
                         [] q = "p"  -> c.p # -1
                         [] q = "d"  -> c.d # <<"-">>
                         [] q = "m"  -> ~Has(c.m, "none")}
    IN  [q \in present |-> c[q]]

InitValidate ==
    /\ ReplaceIdle
    /\ SyncIdle
    /\ WatchIdle
    /\ RemoverIdle
    /\ CtlIdle
    /\ BenchIdle
    /\ DaemonIdle
    /\ ParseIdle
    /\ WriteIdle
    /\ LimiterIdle
    /\ RestoreIdle
    /\ ArchIdle
    /\ pydantic_major \in {1, 2}
    /\ vChoice \in FieldChoices
    /\ vComponent = ComponentOf(vChoice)
    /\ vResult = [valid |-> FALSE, errors |-> <<>>]
    /\ vDone = FALSE

\* is_valid, errors = self.schema.validate_ctl2(component)
Validate ==
    /\ ~vDone
    /\ vResult' = validate_ctl2(vComponent, pydantic_major)
    /\ vDone' = TRUE
    /\ UNCHANGED <<pydantic_major, vChoice, vComponent>>
    /\ UNCHANGED <<replaceVars, syncVars, watchVars, removerVars, ctlVars, benchVars, daemonVars, parseVars, writeVars, limiterVars, restoreVars, archVars>>

\* The component gets a feature-flag list and is validated anew
AddFlags ==
    /\ vDone
    /\ ~Has(vComponent, "f")
    /\ \E n \in {ItemsLimit, ItemsLimit + 1} :
          vComponent' = DictSet(vComponent, "f", Chars(n, "flag"))
    /\ vDone' = FALSE
    /\ vResult' = [valid |-> FALSE, errors |-> <<>>]
    /\ UNCHANGED <<pydantic_major, vChoice>>
    /\ UNCHANGED <<replaceVars, syncVars, watchVars, removerVars, ctlVars, benchVars, daemonVars, parseVars, writeVars, limiterVars, restoreVars, archVars>>

NextValidate == Validate \/ AddFlags

SpecValidate == InitValidate /\ [][NextValidate]_vars

\* The fields other than k are valid: id and t are present and every present
\* field satisfies its constraint
OtherFieldsValid(component) ==
    /\ {"id", "t"} \subseteq DOMAIN component
    /\ Len(component.id) \in 1..32
    /\ \A i \in 1..Len(component.id) : component.id[i] \in IdAlphabet
    /\ Len(component.t) <= 40
    /\ "p" \in DOMAIN component => component.p \in 1..5
    /\ "d" \in DOMAIN component => Len(component.d) <= 10
    /\ "f" \in DOMAIN component => Len(component.f) <= 10
    /\ "m" \in DOMAIN component
          => /\ DOMAIN component.m = {"cur", "tgt", "u"}
             /\ component.m.cur \in 0..100
             /\ component.m.tgt \in 0..100

\* C12: every kind code that the schema advertises is accepted as field k by
\* validate_ctl2 when the other fields are valid.
C12_AdvertisedKindsAccepted ==
    (/\ vDone
     /\ "k" \in DOMAIN vComponent
     /\ vComponent.k \in get_component_kinds
     /\ OtherFieldsValid(vComponent))
        => vResult.valid

\* C13: validate_ctl2 returns (True, []) exactly when the component has k, id
\* and t and every present field satisfies its constraint, k being one of the
\* eleven kind codes; otherwise it returns False with at least one message.
C13_ValidExactly ==
    vDone =>
        IF /\ "k" \in DOMAIN vComponent
           /\ vComponent.k \in {"T", "A", "B", "F", "M", "S", "R", "P", "D", "C", "E"}
           /\ OtherFieldsValid(vComponent)
        THEN vResult = [valid |-> TRUE, errors |-> <<>>]
        ELSE ~vResult.valid /\ Len(vResult.errors) >= 1

(***************************************************************************)
(* Ctl3Parser (docs-daemon-python/ctl_sync/parsers/ctl3_parser.py).        *)
(* A line is a sequence of tokens: "//", " ", the marker, a tensor symbol, *)
(* "[", "]", ":", ":=", "{", "}", and words.  The two letters that look    *)
(* alike are told apart by their code points: the documented symbol is     *)
(* U+023E (T with diagonal stroke), the letter in the character class of   *)
(* both regular expressions is U+2C67 (H with descender).                  *)
(***************************************************************************)

\* The symbol of the comments, docstrings and of validate_ctl3_tensor
TStroke == "U+023E"

\* The letter in [..D] of ctl3_pattern and tensor_pattern, and its lower case
HDescender == "U+2C67"

HDescenderSmall == "U+2C68"

\* Python's None, where a match or a component is expected
None == [none |-> TRUE]

\* \s
IsWs(tok) == tok = " "

\* The first index from i on that is past the line or not white space
SkipWs(line, i) ==
    CHOOSE j \in i..(Len(line) + 1) :
        /\ j = Len(line) + 1 \/ ~IsWs(line[j])
        /\ \A q \in i..(j - 1) : IsWs(line[q])

\* line[i] is the token
At(line, i, tok) == i <= Len(line) /\ line[i] = tok

\* The first index from i on that holds the token, or 0
IndexFrom(line, i, tok) ==
    LET hits == {j \in i..Len(line) : line[j] = tok}
    IN  IF hits = {} THEN 0 ELSE CHOOSE j \in hits : \A q \in hits : j <= q

\* \]\s*:=\s*\{[^}]*\} from the "]" at b: the index of the closing brace, or 0
TailEnd(line, b) ==
    LET a == SkipWs(line, b + 1)
        c == SkipWs(line, a + 1)
    IN  IF At(line, a, ":=") /\ At(line, c, "{")
        THEN IndexFrom(line, c + 1, "}")
        ELSE 0

\* ctl3_pattern, compiled with re.IGNORECASE, matched at i: <<first, last>>
\* index of group 1, or <<>>
Ctl3MatchAt(line, i) ==
    LET j == SkipWs(line, i + 1)
        s == SkipWs(line, j + 1)
        closes == {b \in (s + 2)..Len(line) : line[b] = "]" /\ TailEnd(line, b) # 0}
    IN  IF /\ At(line, i, "//")
           /\ (At(line, j, "@ctl3:") \/ At(line, j, "@CTL3:"))
           /\ s <= Len(line)
           /\ line[s] \in {HDescender, HDescenderSmall, "D", "d"}
           /\ At(line, s + 1, "[")
           /\ closes # {}
        THEN <<s, TailEnd(line, CHOOSE b \in closes : \A q \in closes : b <= q)>>
        ELSE <<>>

\* self.ctl3_pattern.search(line): group 1 of the leftmost match, or <<>>
ctl3_search(line) ==
    LET starts == {i \in 1..Len(line) : Ctl3MatchAt(line, i) # <<>>}
    IN  IF starts = {} THEN <<>>
        ELSE LET m == Ctl3MatchAt(line, CHOOSE i \in starts : \A q \in starts : i <= q)
             IN  SubSeq(line, m[1], m[2])

\* tensor_pattern matched at s: [id, type, ops], or None.  ([^:]+): ends at
\* the first token with a colon in it, which has to be ":".
TensorMatchAt(tensor, s) ==
    LET colons == {c \in (s + 2)..Len(tensor) : tensor[c] \in {":", ":="}}
        c == IF colons = {} THEN 0 ELSE CHOOSE x \in colons : \A q \in colons : x <= q
        r == IF c = 0 THEN 0 ELSE IndexFrom(tensor, c + 1, "]")
        e == IF r = 0 THEN 0 ELSE TailEnd(tensor, r)
    IN  IF /\ tensor[s] \in {HDescender, "D"}
           /\ At(tensor, s + 1, "[")
           /\ c > s + 2 /\ tensor[c] = ":"
           /\ r > c + 1
           /\ e # 0
        THEN [id   |-> SubSeq(tensor, s + 2, c - 1),
              type |-> SubSeq(tensor, c + 1, r - 1),
              ops  |-> SubSeq(tensor, IndexFrom(tensor, r + 1, "{") + 1, e - 1)]
        ELSE None

\* self.tensor_pattern.search(tensor_str): the groups of the leftmost match
tensor_search(tensor) ==
    LET starts == {s \in 1..Len(tensor) : TensorMatchAt(tensor, s) # None}
    IN  IF starts = {} THEN None
        ELSE TensorMatchAt(tensor, CHOOSE s \in starts : \A q \in starts : s <= q)

\* str.strip()
Strip(text) ==
    LET solid == {i \in 1..Len(text) : ~IsWs(text[i])}
    IN  IF solid = {} THEN <<>>
        ELSE SubSeq(text, CHOOSE i \in solid : \A q \in solid : i <= q,
                          CHOOSE i \in solid : \A q \in solid : i >= q)

\* needle in token, for the operation tokens in use
TokenHas(tok, needle) ==
    \/ tok = "grad[85->95]" /\ needle = "grad"
    \/ tok = "compose[vector_store,cache]" /\ needle = "compose"
    \/ tok = "implies" /\ needle = "implies"
    \/ tok = "gpu" /\ needle = "gpu"

\* needle in operations
OpsHave(operations, needle) ==
    \E i \in 1..Len(operations) : TokenHas(operations[i], needle)

\* _extract_maturity: maturity_pattern.search(operations)
extract_maturity(component, operations) ==
    IF OpsHave(operations, "grad")
    THEN DictSet(component, "m", [cur |-> 85, tgt |-> 95, u |-> "%"])
    ELSE component

\* _extract_dependencies: dependency_pattern.search(operations)
extract_dependencies(component, operations) ==
    IF OpsHave(operations, "compose")
    THEN DictSet(component, "d", <<"vector_store", "cache">>)
    ELSE component

\* tensor_operators with an ASCII spelling, in the order of the dict, and the
\* keywords that follow
FlagTable ==
    << <<"compose", "tensor_composition">>, <<"parallel", "tensor_addition">>,
       <<"grad", "optimization">>, <<"partial", "partial_implementation">>,
       <<"implies", "implication">>, <<"gpu", "gpu">>, <<"ai", "ai">>,
       <<"async", "async">>,
       <<"real_time", "real_time">>, <<"batch", "batch">>, <<"stream", "streaming">> >>

\* _extract_flags
extract_flags(component, operations) ==
    LET found == SelectSeq(FlagTable, LAMBDA row : OpsHave(operations, row[1]))
        flags == [i \in 1..Len(found) |-> found[i][2]]
    IN  IF flags # <<>> THEN DictSet(component, "f", flags) ELSE component

\* BaseParser.normalize_file_path: file_path.replace('\\', '/')
normalize_file_path(file_path) ==
    [i \in 1..Len(file_path) |-> IF file_path[i] = "\\" THEN "/" ELSE file_path[i]]

\* BaseParser.add_file_location
add_file_location(component, file_path, line_no) ==
    DictSet(component, "x_file",
            normalize_file_path(file_path) \o <<":", ToString(line_no)>>)

\* Ctl3Parser.parse_tensor
parse_tensor(tensor_str) ==
    LET match == tensor_search(tensor_str)
    IN  IF match = None
        THEN None
        ELSE LET id_str == Strip(match.id)
                 type_str == Strip(match.type)
                 operations == Strip(match.ops)
                 component == [k |-> infer_kind_from_type(type_str),
                               id |-> id_str,
                               t |-> type_str \o <<" (CTL v3.0)">>,
                               ctl3_tensor |-> tensor_str]
             IN  extract_flags(
                     extract_dependencies(
                         extract_maturity(component, operations), operations),
                     operations)

\* Ctl3Parser.parse_line
parse_line(line, line_no, file_path) ==
    LET tensor_str == ctl3_search(line)
    IN  IF tensor_str = <<>>
        THEN None
        ELSE LET component == parse_tensor(tensor_str)
             IN  IF component # None
                 THEN add_file_location(component, file_path, line_no)
                 ELSE None

\* Lines of a file that extract_from_file hands to parse_line one after another
MaxLines == 2

\* A line is built from a choice of its parts; an empty part is left out
LineShapes ==
    [prefix : {<<>>, <<"let x = 1;", " ">>},
     gap    : {<<>>, <<" ">>},
     marker : {"@ctl3:", "@CTL3:", "@component:"},
     symbol : {TStroke, HDescender, "D", "d"},
     id     : {<<"memory_service">>, <<" ", "svc", " ">>, <<>>},
     type   : {<<"Service">>, <<"Validation", "Error">>, <<>>},
     assign : {":=", "="},
     ops    : {<<>>, <<"grad[85->95]", " ", "compose[vector_store,cache]">>, <<"gpu">>},
     close  : {<<"}">>, <<>>}]

\* The line of a shape
LineOf(shape) ==
    shape.prefix \o <<"//">> \o shape.gap \o <<shape.marker, " ", shape.symbol, "[">>
        \o shape.id \o <<":">> \o shape.type \o <<"]", " ", shape.assign, " ", "{">>
        \o shape.ops \o shape.close

\* The paths of the files parsed
ParsePaths == {<<"test.rs">>, <<"cli", "\\", "src", "\\", "main.rs">>}

InitParse ==
    /\ ReplaceIdle
    /\ SyncIdle
    /\ WatchIdle
    /\ RemoverIdle
    /\ CtlIdle
    /\ BenchIdle
    /\ DaemonIdle
    /\ ValidateIdle
    /\ WriteIdle
    /\ LimiterIdle
    /\ RestoreIdle
    /\ ArchIdle
    /\ pShape \in LineShapes
    /\ pPath \in ParsePaths
    /\ pLineNo = 1
    /\ pResult = None
    /\ pDone = FALSE

\* component = self.parse_line(line, line_no, file_path)
ParseLine ==
    /\ ~pDone
    /\ pResult' = parse_line(LineOf(pShape), pLineNo, pPath)
    /\ pDone' = TRUE
    /\ UNCHANGED <<pShape, pPath, pLineNo>>
    /\ UNCHANGED <<replaceVars, syncVars, watchVars, removerVars, ctlVars, benchVars, daemonVars, validateVars, writeVars, limiterVars, restoreVars, archVars>>

\* extract_from_file goes on to the next line, which reads the same
NextLine ==
    /\ pDone
    /\ pLineNo < MaxLines
    /\ pLineNo' = pLineNo + 1
    /\ pDone' = FALSE
    /\ pResult' = None
    /\ UNCHANGED <<pShape, pPath>>
    /\ UNCHANGED <<replaceVars, syncVars, watchVars, removerVars, ctlVars, benchVars, daemonVars, validateVars, writeVars, limiterVars, restoreVars, archVars>>

NextParse == ParseLine \/ NextLine

SpecParse == InitParse /\ [][NextParse]_vars

\* The line has the form // @ctl3: S[id:type] := {ops} with S one of the two
\* documented symbols; the case of the marker is not looked at
HasForm(shape) ==
    /\ shape.marker \in {"@ctl3:", "@CTL3:"}
    /\ shape.symbol \in {TStroke, "D"}
    /\ shape.id # <<>>
    /\ shape.type # <<>>
    /\ shape.assign = ":="
    /\ shape.close = <<"}">>

\* C14: parse_line returns a component with id, t = '<type> (CTL v3.0)',
\* k = infer_kind_from_type(type) and x_file = '<path>:<line_no>' for every
\* line of the form // @ctl3: S[id:type] := {ops} with S one of the two
\* documented tensor symbols, and None for every other line.
C14_ParsesDocumentedForm ==
    pDone =>
        IF HasForm(pShape)
        THEN /\ pResult # None
             /\ pResult.id = Strip(pShape.id)
             /\ pResult.t = Strip(pShape.type) \o <<" (CTL v3.0)">>
             /\ pResult.k = infer_kind_from_type(Strip(pShape.type))
             /\ pResult.x_file
                   = [i \in 1..Len(pPath) |-> IF pPath[i] = "\\" THEN "/" ELSE pPath[i]]
                        \o <<":", ToString(pLineNo)>>
        ELSE pResult = None

(***************************************************************************)
(* SecurityUtils (scripts/architecture_daemon.py).                         *)
(* A directory is what validate_project_path can see of it: the length of  *)
(* its path string, whether the string holds a dangerous pattern, whether  *)
(* it resolves, exists, is a directory and holds Cargo.toml.  A content is *)
(* [body, chars, bytes]: the text, its length in characters and the length *)
(* of its UTF-8 encoding.  A file is "absent" or its body.                 *)
(***************************************************************************)

MAX_PATH_LENGTH == 500

\* 10 * 1024 * 1024
MAX_FILE_SIZE == 10485760

ALLOWED_EXTENSIONS == {".rs", ".toml", ".md", ".txt"}

\* Path.suffix of the file names written here
PathSuffix(name) ==
    CASE name = "CLAUDE.md" -> ".md"
      [] name = "README.MD" -> ".MD"
      [] name = "Makefile" -> ""

\* str.lower of a suffix
SuffixLower(suffix) == IF suffix = ".MD" THEN ".md" ELSE suffix

\* validate_project_path(project_root): TRUE when it returns the resolved
\* path, FALSE when it raises SecurityError
validate_project_path(dir) ==
    /\ ~ (dir.path_len = 0 \/ dir.path_len > MAX_PATH_LENGTH)
    /\ ~ dir.dangerous
    /\ dir.resolves
    /\ dir.exists
    /\ dir.is_dir
    /\ dir.cargo

\* len(content.encode('utf-8')) counted in characters instead of bytes
content_size_Chars(content) == content.chars

\* content_size = len(content.encode('utf-8'))
content_size(content) == content.bytes

\* safe_write_file(file_path, content, max_size) with file_path = dir / name;
\* io is what open and write meet: "ok", "open_fails" (OSError from open,
\* nothing touched) or "write_fails" (OSError from write, after open has
\* truncated the file).  Returns what was raised, whether open was called,
\* and the files of the directory afterwards.
safe_write_file(dir, files, name, content, max_size, io) ==
    LET limit == IF max_size.given THEN max_size.value ELSE MAX_FILE_SIZE
        refused == [raised |-> "SecurityError", opened |-> FALSE, files |-> files]
    IN  IF content_size(content) > limit THEN refused
        ELSE IF ~ validate_project_path(dir) THEN refused
        ELSE IF SuffixLower(PathSuffix(name)) \notin ALLOWED_EXTENSIONS THEN refused
        ELSE CASE io = "ok" ->
                    [raised |-> "none", opened |-> TRUE,
                     files |-> [files EXCEPT ![name] = content.body]]
               [] io = "open_fails" ->
                    [raised |-> "SecurityError", opened |-> TRUE, files |-> files]
               [] io = "write_fails" ->
                    [raised |-> "SecurityError", opened |-> TRUE,
                     files |-> [files EXCEPT ![name] = ""]]

MaxWrites == 2

WriteNames == {"CLAUDE.md", "README.MD", "Makefile"}

\* The parent directories: a Rust project at "." and at a path of 500
\* characters, and one directory for each test of validate_project_path
GoodDir ==
    [path_len |-> 1, dangerous |-> FALSE, resolves |-> TRUE, exists |-> TRUE,
     is_dir |-> TRUE, cargo |-> TRUE]

WriteDirs ==
    { GoodDir,
      [GoodDir EXCEPT !.path_len = MAX_PATH_LENGTH],
      [GoodDir EXCEPT !.path_len = MAX_PATH_LENGTH + 1],
      [GoodDir EXCEPT !.dangerous = TRUE],
      [GoodDir EXCEPT !.resolves = FALSE, !.exists = FALSE, !.is_dir = FALSE,
                      !.cargo = FALSE],
      [GoodDir EXCEPT !.exists = FALSE, !.is_dir = FALSE, !.cargo = FALSE],
      [GoodDir EXCEPT !.is_dir = FALSE, !.cargo = FALSE],
      [GoodDir EXCEPT !.cargo = FALSE] }

\* The contents: a short text, two texts around the limit given by the
\* caller, a text of exactly MAX_FILE_SIZE bytes, and a text of fewer than
\* MAX_FILE_SIZE characters whose encoding is longer than MAX_FILE_SIZE
WriteContents ==
    { [body |-> "short", chars |-> 1, bytes |-> 1],
      [body |-> "four", chars |-> 4, bytes |-> 4],
      [body |-> "accented", chars |-> 3, bytes |-> 5],
      [body |-> "full", chars |-> MAX_FILE_SIZE, bytes |-> MAX_FILE_SIZE],
      [body |-> "cyrillic", chars |-> MAX_FILE_SIZE - 1, bytes |-> 2 * (MAX_FILE_SIZE - 1)] }

\* max_size: left out, or given by the caller
MaxSizes == {[given |-> FALSE], [given |-> TRUE, value |-> 4]}

InitWrite ==
    /\ ReplaceIdle
    /\ SyncIdle
    /\ WatchIdle
    /\ RemoverIdle
    /\ CtlIdle
    /\ BenchIdle
    /\ DaemonIdle
    /\ ValidateIdle
    /\ ParseIdle
    /\ LimiterIdle
    /\ RestoreIdle
    /\ ArchIdle
    /\ swDir \in WriteDirs
    /\ swFiles \in [WriteNames -> {"absent", "old"}]
    /\ swLast = None
    /\ swCalls = 0

\* One call of safe_write_file
SafeWrite ==
    /\ swCalls < MaxWrites
    /\ \E name \in WriteNames, content \in WriteContents, max_size \in MaxSizes,
          io \in {"ok", "open_fails", "write_fails"} :
          LET r == safe_write_file(swDir, swFiles, name, content, max_size, io)
          IN  /\ swFiles' = r.files
              /\ swLast' = [name |-> name, content |-> content, max_size |-> max_size,
                            raised |-> r.raised, opened |-> r.opened]
    /\ swCalls' = swCalls + 1
    /\ UNCHANGED swDir
    /\ UNCHANGED <<replaceVars, syncVars, watchVars, removerVars, ctlVars, benchVars, daemonVars, validateVars, parseVars, limiterVars, restoreVars, archVars>>

\* The directory changes between two calls
DirChange ==
    /\ \E dir \in WriteDirs : swDir' = dir /\ dir # swDir
    /\ UNCHANGED <<swFiles, swLast, swCalls>>
    /\ UNCHANGED <<replaceVars, syncVars, watchVars, removerVars, ctlVars, benchVars, daemonVars, validateVars, parseVars, limiterVars, restoreVars, archVars>>

NextWrite == SafeWrite \/ DirChange

SpecWrite == InitWrite /\ [][NextWrite]_vars

\* The effective limit of a recorded call
LimitOf(call) == IF call.max_size.given THEN call.max_size.value ELSE MAX_FILE_SIZE

\* The three conditions of a recorded call made in dir, the extension compared as written
\* or after lower-casing
MustRefuse(call, dir, suffix) ==
    \/ call.content.bytes > LimitOf(call)
    \/ ~ ( /\ dir.path_len \in 1..MAX_PATH_LENGTH
           /\ ~ dir.dangerous
           /\ dir.resolves /\ dir.exists /\ dir.is_dir
           /\ dir.cargo )
    \/ suffix \notin ALLOWED_EXTENSIONS

\* C15 as stated: whenever the UTF-8 content exceeds max_size, the parent
\* directory fails validate_project_path, or the extension of the file is not
\* in ALLOWED_EXTENSIONS, safe_write_file raises SecurityError without having
\* opened the target, and no file is created or modified.
C15_AsStated ==
    [][ swCalls' # swCalls =>
          ( MustRefuse(swLast', swDir, PathSuffix(swLast'.name)) =>
              /\ swLast'.raised = "SecurityError"
              /\ ~ swLast'.opened
              /\ swFiles' = swFiles ) ]_vars

\* C15: whenever the UTF-8 content exceeds max_size, the parent directory
\* fails validate_project_path, or the lower-cased extension of the file is
\* not in ALLOWED_EXTENSIONS, safe_write_file raises SecurityError without
\* having opened the target, and no file is created or modified.
C15_ChecksBeforeOpen ==
    [][ swCalls' # swCalls =>
          ( MustRefuse(swLast', swDir, SuffixLower(PathSuffix(swLast'.name))) =>
              /\ swLast'.raised = "SecurityError"
              /\ ~ swLast'.opened
              /\ swFiles' = swFiles ) ]_vars

\* A text whose encoding alone is over the default limit was refused for a
\* valid directory and an allowed extension, after an earlier call wrote
C15_Witness ==
    /\ swLast # None
    /\ swCalls = MaxWrites
    /\ ~ swLast.max_size.given
    /\ swLast.content.chars <= MAX_FILE_SIZE
    /\ swLast.content.bytes > MAX_FILE_SIZE
    /\ validate_project_path(swDir)
    /\ swLast.name = "CLAUDE.md"
    /\ swLast.raised = "SecurityError"
    /\ swFiles["CLAUDE.md"] = "full"

(***************************************************************************)
(* ResourceLimiter (scripts/architecture_daemon.py).                       *)
(* time.time() is the clock rlNow, in whole seconds.  A content is         *)
(* [chars, bytes], its length in characters and in UTF-8 bytes.  Each      *)
(* check is one action; rlLast records the check made last and whether it  *)
(* raised SecurityError.                                                   *)
(***************************************************************************)

MAX_FILE_COUNT == 1000

MAX_ANALYSIS_TIME == 300

\* 50 * 1024 * 1024
MAX_CONTENT_SIZE == 52428800

\* time.time() when the limiter is constructed
ConstructionTime == 1000

\* check_time_limit: whether it raises
check_time_limit(start, now) == now - start > MAX_ANALYSIS_TIME

\* check_file_limit testing the counter before the update
check_file_limit_TestFirst(count) ==
    [file_count |-> count + 1, raised |-> count > MAX_FILE_COUNT]

\* check_file_limit: the counter afterwards and whether it raises
check_file_limit(count) ==
    [file_count |-> count + 1, raised |-> count + 1 > MAX_FILE_COUNT]

\* check_content_size(content): the counter afterwards and whether it raises
check_content_size(size, content) ==
    [content_size |-> size + content.bytes,
     raised |-> size + content.bytes > MAX_CONTENT_SIZE]

\* Calls of check_file_limit made after the limit was exceeded
MaxOver == 2

\* The contents checked: half the limit in ASCII, and a text of fewer
\* characters whose encoding is one byte longer than half the limit
HalfLimit == MAX_CONTENT_SIZE \div 2

LimiterContents ==
    { [chars |-> HalfLimit, bytes |-> HalfLimit],
      [chars |-> HalfLimit - 1, bytes |-> HalfLimit + 1] }

\* The steps of the clock between two checks, in seconds
ClockSteps == {MAX_ANALYSIS_TIME \div 2, MAX_ANALYSIS_TIME \div 2 + 1}

InitLimiter ==
    /\ ReplaceIdle
    /\ SyncIdle
    /\ WatchIdle
    /\ RemoverIdle
    /\ CtlIdle
    /\ BenchIdle
    /\ DaemonIdle
    /\ ValidateIdle
    /\ ParseIdle
    /\ WriteIdle
    /\ RestoreIdle
    /\ ArchIdle
    /\ rlNow = ConstructionTime
    /\ rl_start_time = ConstructionTime
    /\ rl_file_count = 0
    /\ rl_content_size = 0
    /\ rlLast = None

CheckTimeLimit ==
    /\ rlLast' = [check |-> "time", raised |-> check_time_limit(rl_start_time, rlNow)]
    /\ UNCHANGED <<rlNow, rl_start_time, rl_file_count, rl_content_size>>
    /\ UNCHANGED <<replaceVars, syncVars, watchVars, removerVars, ctlVars, benchVars, daemonVars, validateVars, parseVars, writeVars, restoreVars, archVars>>

CheckFileLimit ==
    /\ rl_file_count < MAX_FILE_COUNT + MaxOver
    /\ LET r == check_file_limit(rl_file_count)
       IN  /\ rl_file_count' = r.file_count
           /\ rlLast' = [check |-> "file", raised |-> r.raised]
    /\ UNCHANGED <<rlNow, rl_start_time, rl_content_size>>
    /\ UNCHANGED <<replaceVars, syncVars, watchVars, removerVars, ctlVars, benchVars, daemonVars, validateVars, parseVars, writeVars, restoreVars, archVars>>

CheckContentSize ==
    /\ rl_content_size <= MAX_CONTENT_SIZE + 1
    /\ \E content \in LimiterContents :
          LET r == check_content_size(rl_content_size, content)
          IN  /\ rl_content_size' = r.content_size
              /\ rlLast' = [check |-> "content", raised |-> r.raised]
    /\ UNCHANGED <<rlNow, rl_start_time, rl_file_count>>
    /\ UNCHANGED <<replaceVars, syncVars, watchVars, removerVars, ctlVars, benchVars, daemonVars, validateVars, parseVars, writeVars, restoreVars, archVars>>

\* Time passes
ClockTick ==
    /\ rlNow - rl_start_time <= MAX_ANALYSIS_TIME
    /\ \E d \in ClockSteps : rlNow' = rlNow + d
    /\ UNCHANGED <<rl_start_time, rl_file_count, rl_content_size, rlLast>>
    /\ UNCHANGED <<replaceVars, syncVars, watchVars, removerVars, ctlVars, benchVars, daemonVars, validateVars, parseVars, writeVars, restoreVars, archVars>>

NextLimiter == CheckTimeLimit \/ CheckFileLimit \/ CheckContentSize \/ ClockTick

SpecLimiter == InitLimiter /\ [][NextLimiter]_vars

\* A step that is a call of the named check
CheckStep(check) == rlLast' # rlLast /\ rlLast'.check = check

\* C16: the counters only grow, and each check raises SecurityError exactly
\* when the value after its update exceeds the limit: check_file_limit when
\* file_count has become more than 1000, check_content_size when the sum of
\* the UTF-8 byte counts has become more than 50 MB, check_time_limit when
\* more than 300 s have passed since construction.
C16_RaisesExactlyOverLimit ==
    [][ /\ rl_file_count' >= rl_file_count
        /\ rl_content_size' >= rl_content_size
        /\ rl_file_count' # rl_file_count =>
              /\ rl_file_count' = rl_file_count + 1
              /\ rlLast'.check = "file"
              /\ rlLast'.raised <=> rl_file_count' > 1000
        /\ rl_content_size' # rl_content_size =>
              /\ rlLast'.check = "content"
              /\ rlLast'.raised <=> rl_content_size' > 50 * 1024 * 1024
        /\ CheckStep("time") =>
              (rlLast'.raised <=> rlNow' - ConstructionTime > 300)
        /\ (rlLast' # rlLast /\ rlLast # None /\ rlLast.raised
              /\ rlLast'.check = rlLast.check) => rlLast'.raised
      ]_vars

\* check_file_limit has raised on its 1001st call and on the one after it,
\* check_content_size has passed at exactly 50 MB, and check_time_limit has
\* just raised, 301 s after construction
C16_Witness ==
    /\ rl_file_count = MAX_FILE_COUNT + 2
    /\ rl_content_size = MAX_CONTENT_SIZE
    /\ rlNow - rl_start_time = MAX_ANALYSIS_TIME + 1
    /\ rlLast = [check |-> "time", raised |-> TRUE]

(***************************************************************************)
(* The history-restore scripts (restore_from_cursor_history.py,            *)
(* analyze_cursor_timeline.py, complete_restore.py).                       *)
(* The Cursor history is the sequence of its directories in the order      *)
(* iterdir yields them.  A directory is [resource, entries]: the file its  *)
(* entries.json names and the entries in the order of the list; an entry   *)
(* is [timestamp, on_disk], on_disk telling whether the file named by its  *)
(* id exists in the directory.  A selected version is [dir, entry,         *)
(* timestamp]: the directory, the position in its list, the timestamp.     *)
(***************************************************************************)

\* 'MAGRAY_Cli' in resource
InProject(resource) == resource # "other"

\* One turn of the loop of find_magray_files, for the directory at i
magray_step(history, magray_files, i) ==
    LET data == history[i]
        entries == data.entries
        last_entry == entries[Len(entries)]
    IN  IF ~ InProject(data.resource) THEN magray_files
        ELSE IF entries = <<>> THEN magray_files
        ELSE IF ~ last_entry.on_disk THEN magray_files
        ELSE IF \/ data.resource \notin DOMAIN magray_files
                \/ magray_files[data.resource].timestamp < last_entry.timestamp
             THEN DictSet(magray_files, data.resource,
                          [dir |-> i, entry |-> Len(entries),
                           timestamp |-> last_entry.timestamp])
             ELSE magray_files

RECURSIVE magray_loop(_, _)
magray_loop(history, n) ==
    IF n = 0 THEN EmptyDict
    ELSE magray_step(history, magray_loop(history, n - 1), n)

\* find_magray_files(): relative path -> the version to restore
find_magray_files(history) == magray_loop(history, Len(history))

\* The changes find_all_changes appends for the entries j.. of directory i
RECURSIVE dir_changes(_, _, _)
dir_changes(history, i, j) ==
    LET entries == history[i].entries
    IN  IF j > Len(entries) THEN <<>>
        ELSE (IF entries[j].on_disk
              THEN << [timestamp |-> entries[j].timestamp,
                       file_path |-> history[i].resource,
                       dir |-> i, entry |-> j] >>
              ELSE <<>>) \o dir_changes(history, i, j + 1)

RECURSIVE all_changes_upto(_, _)
all_changes_upto(history, n) ==
    IF n = 0 THEN <<>>
    ELSE all_changes_upto(history, n - 1) \o
         (IF InProject(history[n].resource) THEN dir_changes(history, n, 1) ELSE <<>>)

\* sorted(all_changes, key=lambda x: x['timestamp']), which is stable
RECURSIVE insert_change(_, _)
insert_change(sorted, c) ==
    IF sorted = <<>> THEN <<c>>
    ELSE IF Head(sorted).timestamp <= c.timestamp
         THEN <<Head(sorted)>> \o insert_change(Tail(sorted), c)
         ELSE <<c>> \o sorted

RECURSIVE sort_changes(_)
sort_changes(cs) ==
    IF cs = <<>> THEN <<>>
    ELSE insert_change(sort_changes(SubSeq(cs, 1, Len(cs) - 1)), cs[Len(cs)])

\* find_all_changes()
find_all_changes(history) == sort_changes(all_changes_upto(history, Len(history)))

\* file_versions of complete_restore: file path -> the version to restore
RECURSIVE file_versions(_, _)
file_versions(all_changes, n) ==
    IF n = 0 THEN EmptyDict
    ELSE LET acc == file_versions(all_changes, n - 1)
             change == all_changes[n]
         IN  IF \/ change.file_path \notin DOMAIN acc
                \/ change.timestamp > acc[change.file_path].timestamp
             THEN DictSet(acc, change.file_path,
                          [dir |-> change.dir, entry |-> change.entry,
                           timestamp |-> change.timestamp])
             ELSE acc

complete_restore(history) ==
    LET all_changes == find_all_changes(history)
    IN  file_versions(all_changes, Len(all_changes))

MaxEntries == 2

Resources == {"main.rs", "lib.rs", "other"}

Timestamps == {100, 200}

HistoryEntries == [timestamp : Timestamps, on_disk : BOOLEAN]

\* A directory of another project stands for every directory that the loops
\* pass over
HistoryDirs == [resource : Resources, entries : SeqsUpTo(HistoryEntries, MaxEntries)]

InitRestore ==
    /\ ReplaceIdle
    /\ SyncIdle
    /\ WatchIdle
    /\ RemoverIdle
    /\ CtlIdle
    /\ BenchIdle
    /\ DaemonIdle
    /\ ValidateIdle
    /\ ParseIdle
    /\ WriteIdle
    /\ LimiterIdle
    /\ ArchIdle
    /\ hrHistory \in {<<first, second>> : first \in HistoryDirs, second \in HistoryDirs}
    /\ hrSelected = EmptyDict
    /\ hrScript = "none"

\* restore_from_cursor_history.py has chosen the versions to restore
RestoreFromCursorHistory ==
    /\ hrSelected' = find_magray_files(hrHistory)
    /\ hrScript' = "restore_from_cursor_history"
    /\ UNCHANGED hrHistory
    /\ UNCHANGED <<replaceVars, syncVars, watchVars, removerVars, ctlVars, benchVars, daemonVars, validateVars, parseVars, writeVars, limiterVars, archVars>>

\* complete_restore.py has chosen the versions to restore
CompleteRestore ==
    /\ hrSelected' = complete_restore(hrHistory)
    /\ hrScript' = "complete_restore"
    /\ UNCHANGED hrHistory
    /\ UNCHANGED <<replaceVars, syncVars, watchVars, removerVars, ctlVars, benchVars, daemonVars, validateVars, parseVars, writeVars, limiterVars, archVars>>

NextRestore == RestoreFromCursorHistory \/ CompleteRestore

SpecRestore == InitRestore /\ [][NextRestore]_vars

\* The timestamps of the entries of a file whose history file exists, over
\* all directories
TimestampsOf(history, file) ==
    { history[i].entries[j].timestamp :
        <<i, j>> \in { p \in (1..Len(history)) \X (1..MaxEntries) :
                          /\ history[p[1]].resource = file
                          /\ p[2] <= Len(history[p[1]].entries)
                          /\ history[p[1]].entries[p[2]].on_disk } }

\* C17: once a restore script has chosen, the version chosen for a file has
\* the greatest timestamp among the entries recorded for that file in all
\* history directories (those whose history file exists).
C17_NewestSelected ==
    hrScript # "none" =>
        \A file \in DOMAIN hrSelected :
            \A t \in TimestampsOf(hrHistory, file) : hrSelected[file].timestamp >= t

(***************************************************************************)
(* ArchitectureDaemon.watch_mode (scripts/architecture_daemon.py).         *)
(* The observer thread calls ArchitectureHandler.on_modified for one       *)
(* event at a time; on_modified does not wait, it starts a                 *)
(* threading.Timer.  Every Timer is a thread of its own that runs          *)
(* _delayed_update: scan_architecture, then update_claude_md.  Time is in  *)
(* whole seconds.  A thread is [pc, fire_at] with pc one of "unused",      *)
(* "timer", "scan", "write", "done".                                       *)
(***************************************************************************)

\* on_modified: updates are started at most once in 5 seconds
UpdateDebounce == 5

\* threading.Timer(2.0, self._delayed_update)
TimerDelay == 2

\* Timers started in one behaviour
MaxTimers == 2

\* Seconds of the clock a behaviour may see
MaxSeconds == 8

\* time.time() when the watch begins (far from the epoch)
WatchBegin == UpdateDebounce

\* The events the observer may deliver to on_modified: [is_directory, src_path]
ModifiedEvents ==
    { [is_directory |-> FALSE, src_path |-> "crates/cli/Cargo.toml"],
      [is_directory |-> FALSE, src_path |-> "crates/cli/src/main.rs"],
      [is_directory |-> TRUE, src_path |-> "crates/cli"] }

\* event.src_path.endswith('Cargo.toml')
EndsWithCargoToml(src_path) == src_path = "crates/cli/Cargo.toml"

TimerIds == 1..MaxTimers

\* The threads that are inside _delayed_update
Updating == {id \in TimerIds : archThreads[id].pc \in {"scan", "write"}}

InitArchWatch ==
    /\ ReplaceIdle
    /\ SyncIdle
    /\ WatchIdle
    /\ RemoverIdle
    /\ CtlIdle
    /\ BenchIdle
    /\ DaemonIdle
    /\ ValidateIdle
    /\ ParseIdle
    /\ WriteIdle
    /\ LimiterIdle
    /\ RestoreIdle
    /\ aNow = WatchBegin
    /\ last_update = 0
    /\ archThreads = [id \in TimerIds |-> [pc |-> "unused", fire_at |-> 0]]

\* Time passes
ArchTick ==
    /\ aNow < WatchBegin + MaxSeconds
    /\ aNow' = aNow + 1
    /\ UNCHANGED <<last_update, archThreads>>
    /\ UNCHANGED <<replaceVars, syncVars, watchVars, removerVars, ctlVars, benchVars, daemonVars, validateVars, parseVars, writeVars, limiterVars, restoreVars>>

\* ArchitectureHandler.on_modified(event)
OnModified ==
    /\ \E event \in ModifiedEvents :
          IF event.is_directory THEN UNCHANGED <<last_update, archThreads>>
          ELSE IF ~ EndsWithCargoToml(event.src_path)
          THEN UNCHANGED <<last_update, archThreads>>
          ELSE IF aNow - last_update < UpdateDebounce
          THEN UNCHANGED <<last_update, archThreads>>
          ELSE /\ \E id \in TimerIds :
                     /\ archThreads[id].pc = "unused"
                     /\ \A other \in TimerIds :
                           other < id => archThreads[other].pc # "unused"
                     /\ archThreads' = [archThreads EXCEPT
                           ![id] = [pc |-> "timer", fire_at |-> aNow + TimerDelay]]
               /\ last_update' = aNow
    /\ UNCHANGED aNow
    /\ UNCHANGED <<replaceVars, syncVars, watchVars, removerVars, ctlVars, benchVars, daemonVars, validateVars, parseVars, writeVars, limiterVars, restoreVars>>

\* The Timer's interval is over: its thread enters _delayed_update and
\* scan_architecture
TimerFire ==
    /\ \E id \in TimerIds :
          /\ archThreads[id].pc = "timer"
          /\ aNow >= archThreads[id].fire_at
          /\ archThreads' = [archThreads EXCEPT ![id].pc = "scan"]
    /\ UNCHANGED <<aNow, last_update>>
    /\ UNCHANGED <<replaceVars, syncVars, watchVars, removerVars, ctlVars, benchVars, daemonVars, validateVars, parseVars, writeVars, limiterVars, restoreVars>>

\* scan_architecture returns and update_claude_md begins
ScanReturn ==
    /\ \E id \in TimerIds :
          /\ archThreads[id].pc = "scan"
          /\ archThreads' = [archThreads EXCEPT ![id].pc = "write"]
    /\ UNCHANGED <<aNow, last_update>>
    /\ UNCHANGED <<replaceVars, syncVars, watchVars, removerVars, ctlVars, benchVars, daemonVars, validateVars, parseVars, writeVars, limiterVars, restoreVars>>

\* update_claude_md returns, or either call has raised: _delayed_update ends
DelayedUpdateEnd ==
    /\ \E id \in TimerIds :
          /\ archThreads[id].pc \in {"scan", "write"}
          /\ archThreads' = [archThreads EXCEPT ![id].pc = "done"]
    /\ UNCHANGED <<aNow, last_update>>
    /\ UNCHANGED <<replaceVars, syncVars, watchVars, removerVars, ctlVars, benchVars, daemonVars, validateVars, parseVars, writeVars, limiterVars, restoreVars>>

NextArchWatch == ArchTick \/ OnModified \/ TimerFire \/ ScanReturn \/ DelayedUpdateEnd

SpecArchWatch == InitArchWatch /\ [][NextArchWatch]_vars

\* C19: in watch mode at most one automatic update (scan_architecture
\* followed by update_claude_md) is in progress at any time.
C19_OneUpdateAtATime == Cardinality(Updating) <= 1

(***************************************************************************)
(* SpecReplace: replace_architecture_section on bounded documents          *)
(***************************************************************************)

\* Longest document, in chunks, that Init draws
MaxDocLen == 5

DocChunks == {"# AUTO-GENERATED ", "ARCHITECTURE", "COMPONENT STATUS", "text"}

Docs == SeqsUpTo(DocChunks, MaxDocLen)

Sections ==
    {build_architecture_section(cs, ts) :
        cs \in {<<>>, <<[k |-> "C", id |-> "cli", t |-> "CLI"]>>},
        ts \in {"1", "2"}}

InitReplace ==
    /\ SyncIdle
    /\ WatchIdle
    /\ RemoverIdle
    /\ CtlIdle
    /\ BenchIdle
    /\ DaemonIdle
    /\ ValidateIdle
    /\ ParseIdle
    /\ WriteIdle
    /\ LimiterIdle
    /\ RestoreIdle
    /\ ArchIdle
    /\ rContent \in Docs
    /\ rSection \in Sections
    /\ rResult = <<>>
    /\ rPc = "input"

\* update_claude_md lines 237-242: the section is built and spliced in
Replace ==
    /\ rPc = "input"
    /\ rResult' = replace_architecture_section(rContent, rSection)
    /\ rPc' = "done"
    /\ UNCHANGED <<rContent, rSection>>
    /\ UNCHANGED <<syncVars, watchVars, removerVars, ctlVars, benchVars, daemonVars, validateVars, parseVars, writeVars, limiterVars, restoreVars, archVars>>

\* update_claude_md lines 231-247 of the next run: the file written by the
\* previous run is read back and given a new section
Reread ==
    /\ rPc = "done"
    /\ rContent' = rResult
    /\ rSection' \in Sections
    /\ rResult' = <<>>
    /\ rPc' = "input"
    /\ UNCHANGED <<syncVars, watchVars, removerVars, ctlVars, benchVars, daemonVars, validateVars, parseVars, writeVars, limiterVars, restoreVars, archVars>>

NextReplace == Replace \/ Reread

SpecReplace == InitReplace /\ [][NextReplace]_vars

\* s ends with t
EndsWith(s, t) ==
    /\ Len(t) <= Len(s)
    /\ SubSeq(s, Len(s) - Len(t) + 1, Len(s)) = t

\* C2 as stated: the text before the ARCHITECTURE marker and the text from the
\* COMPONENT STATUS marker (its first occurrence in the document) onward are
\* kept; without a start marker the document is kept and the section appended.
C2_AsStated ==
    rPc = "done" =>
        LET s == Find(rContent, start_marker, 0)
            e == Find(rContent, end_marker, 0)
        IN  IF s = -1
            THEN rResult = rContent \o <<"\n\n">> \o rSection
            ELSE /\ Prefix(rResult, s) = Prefix(rContent, s)
                 /\ e # -1 => EndsWith(rResult, Suffix(rContent, e))

\* C2 amended: as C2_AsStated, with the COMPONENT STATUS marker taken to be its
\* first occurrence at or after the ARCHITECTURE marker; the result is the
\* kept prefix, the new section, a blank line and the kept suffix.
C2_ReplaceFrame ==
    rPc = "done" =>
        LET s == Find(rContent, start_marker, 0)
        IN  IF s = -1
            THEN rResult = rContent \o <<"\n\n">> \o rSection
            ELSE LET e    == Find(rContent, end_marker, s)
                     kept == IF e = -1 THEN <<>> ELSE Suffix(rContent, e)
                 IN  /\ Prefix(rResult, s) = Prefix(rContent, s)
                     /\ EndsWith(rResult, kept)
                     /\ Len(rResult) = s + Len(rSection) + 1 + Len(kept)
                     /\ SubSeq(rResult, s + 1, s + Len(rSection)) = rSection

\* C2 witness: a document with text before the section, an old section and a
\* status section after it has been rewritten.
C2_Witness ==
    /\ rPc = "done"
    /\ Find(rContent, start_marker, 0) > 0
    /\ Find(rContent, end_marker, Find(rContent, start_marker, 0)) # -1
    /\ rResult # rContent

====
